---- MODULE Spec2Model ----
(***************************************************************************)
(* PRO-PAD dashboard: the React pages that request forecasts, scenarios    *)
(* and decompositions, the axios layer they call, and the forecasting      *)
(* engine behind the API.  One page is mounted at a time (react-router);   *)
(* mounting a page constructs its state afresh and the responses to the    *)
(* requests of an unmounted page are dropped.                              *)
(***************************************************************************)
EXTENDS Integers, Sequences, FiniteSets, TLC

VARIABLES
    page,          \* the page currently mounted by the router
    dataset,       \* the backend's historical records, ordered by year
    net,           \* requests in flight for the mounted page
    dekomposisi,   \* state of DekomposisiPage
    proyeksi,      \* state of ProyeksiPage
    pemodelan,     \* state of PemodelanPage
    report,        \* state of ExecutiveReportPage
    scenario,      \* state of ScenarioBuilderPage
    insight,       \* state of InsightPage
    engine,        \* last request/response pair of the forecasting engine
    localStorage,  \* the browser's key/value store of JSON texts
    call,          \* a helper function's argument and, once applied, result
    uiCustomization,   \* state of UICustomizationPage
    policySettings,    \* state of PolicySettingsPage
    variableManager    \* state of VariableManagerPage

storageVars == <<localStorage, call>>

settingsPages == <<uiCustomization, policySettings, variableManager>>

vars == <<page, dataset, net, dekomposisi, proyeksi, pemodelan, report,
          scenario, insight, engine, storageVars, settingsPages>>

(***************************************************************************)
(* Bounds of the model.                                                    *)
(***************************************************************************)
MaxRows == 3          \* most records in a generated dataset
MaxRMSE == 2          \* largest backtest error drawn for a model

(***************************************************************************)
(* Values shared by all pages.                                             *)
(***************************************************************************)
Null == [null |-> TRUE]

NoError == "null"

Range(s) == {s[i] : i \in DOMAIN s}

RECURSIVE SumSeq(_)
SumSeq(s) == IF s = <<>> THEN 0 ELSE Head(s) + SumSeq(Tail(s))

RECURSIVE Pow(_, _)
Pow(b, e) == IF e = 0 THEN 1 ELSE b * Pow(b, e - 1)

(***************************************************************************)
(* The dataset: one record per year, years increasing without gaps, money  *)
(* amounts whole rupiah (integers well inside the exact range of a JS      *)
(* number, so +, - on them are exact).                                     *)
(***************************************************************************)
PREDICTOR_KEYS ==
    {"PDRB", "Rasio Gini", "IPM", "TPT", "Kemiskinan", "Inflasi", "Suku Bunga"}

RecordValues ==
    { [PAD |-> 1000, PKB |-> 600, BBNKB |-> 300],
      [PAD |-> 1150, PKB |-> 680, BBNKB |-> 330],
      [PAD |-> 1100, PKB |-> 500, BBNKB |-> 400] }

PredictorValue(key, year) ==
    CASE key = "PDRB"    -> 2000 + 100 * (year - 2018)
      [] key = "Inflasi" -> 300 - 10 * (year - 2018)
      [] OTHER           -> 100 + (year - 2018)

HistoricalRecord(year, v) ==
    [k \in {"Tahun", "PAD", "PKB", "BBNKB"} \cup PREDICTOR_KEYS |->
        CASE k = "Tahun" -> year
          [] k = "PAD"   -> v.PAD
          [] k = "PKB"   -> v.PKB
          [] k = "BBNKB" -> v.BBNKB
          [] OTHER       -> PredictorValue(k, year)]

DatasetFirstYears == {2021, 2022, 2023}

\* every dataset of 1..MaxRows records starting in one of the first years
Datasets ==
    UNION { { [i \in 1..n |-> HistoricalRecord(first + i - 1, vs[i])] :
                vs \in [1..n -> RecordValues], first \in DatasetFirstYears } :
            n \in 1..MaxRows }

\* datasets whose values are a fixed function of the year: what the pages
\* other than DekomposisiPage are run against
TrendValues(year) ==
    [PAD |-> 1000 + 50 * (year - 2018),
     PKB |-> 600 + 30 * (year - 2018),
     BBNKB |-> 300 + 10 * (year - 2018)]

DatasetLastYears == {2023, 2024}

TrendDatasets ==
    { [i \in 1..MaxRows |->
          HistoricalRecord(last - MaxRows + i, TrendValues(last - MaxRows + i))] :
      last \in DatasetLastYears }

(***************************************************************************)
(* services/api.js                                                         *)
(***************************************************************************)
\* a settled HTTP exchange: ok with a body, or an error with the server's
\* {error_kind, message} body ("response"), or without one (network error)
OkResponse(data) == [ok |-> TRUE, data |-> data]

ErrorResponse(kind) ==
    [ok |-> FALSE, hasResponse |-> TRUE,
     data |-> [error_kind |-> kind, message |-> kind]]

NetworkError == [ok |-> FALSE, hasResponse |-> FALSE, data |-> Null]

\* api.interceptors.response: a response is passed on, an error is logged
\* and rejected unchanged
ResponseInterceptor(settled) ==
    IF settled.ok
    THEN [fulfilled |-> TRUE, value |-> settled]
    ELSE [fulfilled |-> FALSE, value |-> settled]

\* dataAPI.loadHistoricalData: GET /data/historical; body {data: [...]}
LoadHistoricalDataOutcomes ==
    { ResponseInterceptor(OkResponse([data |-> dataset])),
      ResponseInterceptor(NetworkError) }

Request(api, op, params) == [api |-> api, op |-> op, params |-> params]

\* the error a rejected request throws: axios keeps the response on it
\* when there was one
AxiosError(settled) ==
    [hasResponse |-> settled.hasResponse, data |-> settled.data]

(***************************************************************************)
(* The forecasting engine behind POST /projection/generate (sections 4.1   *)
(* to 4.4, 6 and 7 of the specification).  Which fits fail and the         *)
(* backtest error of each model are inputs: they are the outcome of the    *)
(* numerical fitting, which is not modelled.                               *)
(***************************************************************************)
MODELS == <<"ols", "arima", "exp_smoothing">>

MODEL_TYPES == Range(MODELS) \cup {"ensemble"}

MIN_FORECAST_YEARS == 1

MAX_FORECAST_YEARS == 10

Merge(f, g) ==
    [k \in DOMAIN f \cup DOMAIN g |-> IF k \in DOMAIN g THEN g[k] ELSE f[k]]

LastRow(rows) == rows[Len(rows)]

\* largest k with k * k <= n, searched downwards from hi
RECURSIVE ISqrtFrom(_, _)
ISqrtFrom(n, hi) == IF hi * hi <= n THEN hi ELSE ISqrtFrom(n, hi - 1)

\* point forecast of one model, i years after the last historical year
ModelForecast(m, rows, var, i) ==
    LET last == LastRow(rows)[var]
        first == rows[1][var]
        prev == IF Len(rows) > 1 THEN rows[Len(rows) - 1][var] ELSE last
    IN  CASE m = "ols"   -> last + i * ((last - first) \div Len(rows))
          [] m = "arima" -> last + i * (last - prev)
          [] OTHER       -> last + i * ((last - prev) \div 2)

\* standard error of the forecast of one model, growing with the horizon
ModelStdErr(m, i) ==
    CASE m = "ols"   -> 2 * i
      [] m = "arima" -> 3 * i
      [] OTHER       -> 4 * i

\* inverse-error weights over the models that fitted, as fractions num/den
\* with a common denominator: a model with RMSE 0 takes the whole mass (the
\* first one in declaration order), otherwise weight_i = (1/RMSE_i) / sum
FirstExact(fitted, rmse) ==
    MODELS[CHOOSE i \in DOMAIN MODELS :
              /\ MODELS[i] \in fitted /\ rmse[MODELS[i]] = 0
              /\ \A j \in DOMAIN MODELS :
                    (MODELS[j] \in fitted /\ rmse[MODELS[j]] = 0) => i <= j]

RECURSIVE ProductOver(_, _)
ProductOver(S, f) ==
    IF S = {} THEN 1
    ELSE LET x == CHOOSE y \in S : TRUE IN f[x] * ProductOver(S \ {x}, f)

RECURSIVE SumOver(_, _)
SumOver(S, f) ==
    IF S = {} THEN 0
    ELSE LET x == CHOOSE y \in S : TRUE IN f[x] + SumOver(S \ {x}, f)

EnsembleWeightsNotRenormalized(fitted, rmse) ==
    IF \E m \in fitted : rmse[m] = 0
    THEN [m \in fitted |->
            [num |-> IF m = FirstExact(fitted, rmse) THEN 1 ELSE 0, den |-> 1]]
    ELSE LET all == Range(MODELS)
             floor == [m \in all |-> IF rmse[m] = 0 THEN 1 ELSE rmse[m]]
             num == [m \in all |-> ProductOver(all \ {m}, floor)]
         IN  [m \in fitted |-> [num |-> num[m], den |-> SumOver(all, num)]]

EnsembleWeights(fitted, rmse) ==
    IF \E m \in fitted : rmse[m] = 0
    THEN [m \in fitted |->
            [num |-> IF m = FirstExact(fitted, rmse) THEN 1 ELSE 0, den |-> 1]]
    ELSE LET num == [m \in fitted |-> ProductOver(fitted \ {m}, rmse)]
         IN  [m \in fitted |-> [num |-> num[m], den |-> SumOver(fitted, num)]]

ForecastYears(rows, n) == [i \in 1..n |-> LastRow(rows)["Tahun"] + i]

\* the forecast of a single model: point predictions and, when asked for,
\* the bounds point -/+ 2 standard errors
SingleForecast(m, rows, var, n, ci) ==
    LET point == [i \in 1..n |-> ModelForecast(m, rows, var, i)]
        base == [years |-> ForecastYears(rows, n), predictions |-> point]
        bounds == [lower_ci |-> [i \in 1..n |-> point[i] - 2 * ModelStdErr(m, i)],
                   upper_ci |-> [i \in 1..n |-> point[i] + 2 * ModelStdErr(m, i)]]
    IN  IF ci THEN Merge(base, bounds) ELSE base

\* the combined forecast: sum of weight_i * forecast_i, and bounds from
\* Var = sum of weight_i^2 * Var_i
EnsembleForecast(fitted, rmse, rows, var, n, ci) ==
    LET w == EnsembleWeights(fitted, rmse)
        den == w[CHOOSE m \in fitted : TRUE].den
        point == [i \in 1..n |->
                    SumOver(fitted, [m \in fitted |->
                        w[m].num * ModelForecast(m, rows, var, i)]) \div den]
        se == [i \in 1..n |->
                 LET sq == [m \in fitted |->
                              (w[m].num * ModelStdErr(m, i)) * (w[m].num * ModelStdErr(m, i))]
                     hi == SumOver(fitted, [m \in fitted |->
                                               w[m].num * ModelStdErr(m, i)])
                 IN  ISqrtFrom(SumOver(fitted, sq), hi) \div den]
        base == [years |-> ForecastYears(rows, n), predictions |-> point,
                 weights |-> w]
        bounds == [lower_ci |-> [i \in 1..n |-> point[i] - 2 * se[i]],
                   upper_ci |-> [i \in 1..n |-> point[i] + 2 * se[i]]]
    IN  IF ci THEN Merge(base, bounds) ELSE base

HistoricalSeries(rows, var) ==
    [years |-> [i \in DOMAIN rows |-> rows[i]["Tahun"]],
     values |-> [i \in DOMAIN rows |-> rows[i][var]]]

\* the warning annotation of a degraded ensemble: the models left out
EnsembleWarningsDropped(failed) == {}

EnsembleWarnings(failed) == failed

\* generateProjection: validation first, then the fit(s); a single model
\* that fails is an error, an ensemble drops the models that fail, reports
\* them as warnings and fails only when none is left
GenerateProjection(req, rows, failed, rmse) ==
    IF \/ req.forecast_years < MIN_FORECAST_YEARS
       \/ req.forecast_years > MAX_FORECAST_YEARS
       \/ req.model_type \notin MODEL_TYPES
    THEN ErrorResponse("ValidationError")
    ELSE IF req.model_type # "ensemble"
    THEN IF req.model_type \in failed
         THEN ErrorResponse("FitError")
         ELSE OkResponse(
                [model_type |-> req.model_type,
                 historical |-> HistoricalSeries(rows, req.response_var),
                 forecast |-> SingleForecast(req.model_type, rows,
                                 req.response_var, req.forecast_years,
                                 req.include_confidence_intervals),
                 warnings |-> {}])
    ELSE LET fitted == Range(MODELS) \ failed
         IN  IF fitted = {}
             THEN ErrorResponse("AllModelsFailedError")
             ELSE OkResponse(
                    [model_type |-> "ensemble",
                     historical |-> HistoricalSeries(rows, req.response_var),
                     forecast |-> EnsembleForecast(fitted, rmse, rows,
                                     req.response_var, req.forecast_years,
                                     req.include_confidence_intervals),
                     warnings |-> EnsembleWarnings(failed)])

\* POST /model/ols, /model/arima, /model/exp-smoothing, /model/ensemble: the
\* fit of one model, or of the ensemble, on the historical data
FitModel(kind, params, failed) ==
    IF kind # "ensemble"
    THEN IF kind \in failed
         THEN ErrorResponse("FitError")
         ELSE OkResponse([model_type |-> kind,
                          response_var |-> params.response_var,
                          warnings |-> {}])
    ELSE IF Range(MODELS) \subseteq failed
         THEN ErrorResponse("AllModelsFailedError")
         ELSE OkResponse([model_type |-> "ensemble",
                          response_var |-> params.response_var,
                          warnings |-> EnsembleWarnings(failed)])

\* forecast impact of a +/- variation of one predictor, the others held
PredictorImpact(key, variation_pct) ==
    CASE key = "PDRB" -> [positive |-> 5 * variation_pct,
                          negative |-> 0 - 5 * variation_pct]
      [] key = "IPM"  -> [positive |-> 2 * variation_pct,
                          negative |-> 0 - 3 * variation_pct]
      [] OTHER        -> [positive |-> 0 - variation_pct,
                          negative |-> variation_pct]

AbsInt(x) == IF x < 0 THEN 0 - x ELSE x

\* max(|impact_positive|, |impact_negative|) of a sensitivity entry
CombinedImpact(entry) ==
    IF AbsInt(entry.impact_positive) >= AbsInt(entry.impact_negative)
    THEN AbsInt(entry.impact_positive) ELSE AbsInt(entry.impact_negative)

RankedDescending(entries) ==
    \A i \in 1..(Len(entries) - 1) :
        CombinedImpact(entries[i]) >= CombinedImpact(entries[i + 1])

\* stable insertion of an entry below every entry at least as large
RECURSIVE InsertRanked(_, _)
InsertRanked(ranked, entry) ==
    IF ranked = <<>> THEN <<entry>>
    ELSE IF CombinedImpact(Head(ranked)) >= CombinedImpact(entry)
    THEN <<Head(ranked)>> \o InsertRanked(Tail(ranked), entry)
    ELSE <<entry>> \o ranked

RECURSIVE RankByImpact(_)
RankByImpact(entries) ==
    IF entries = <<>> THEN <<>>
    ELSE InsertRanked(RankByImpact(SubSeq(entries, 1, Len(entries) - 1)),
                      entries[Len(entries)])

\* POST /analysis/sensitivity: one entry per predictor, ranked by combined
\* impact, largest first; an OLS fit needs at least one predictor
GetSensitivityAnalysis(params, failed) ==
    IF Len(params.predictor_vars) = 0
    THEN ErrorResponse("ValidationError")
    ELSE IF "ols" \in failed
    THEN ErrorResponse("FitError")
    ELSE OkResponse(
           [sensitivity |->
              RankByImpact(
                [i \in DOMAIN params.predictor_vars |->
                   [variable |-> params.predictor_vars[i],
                    impact_positive |->
                       PredictorImpact(params.predictor_vars[i],
                                       params.variation_pct).positive,
                    impact_negative |->
                       PredictorImpact(params.predictor_vars[i],
                                       params.variation_pct).negative]])])

\* POST /analysis/correlation
GetCorrelation(params) == OkResponse([variables |-> params.variables])

\* POST /projection/scenarios (section 4.5): the OLS forecast recomputed on
\* base trajectory x (1 + adjustment/100) with the fitted coefficients held,
\* the adjustments being percentages.  Without scenario_adjustments the
\* default presets are evaluated.
ScenarioCoefficient(key) ==
    CASE key = "PDRB"    -> 2
      [] key = "Inflasi" -> 0 - 1
      [] OTHER           -> 1

\* numbers of a scenario request that need not be whole: num / den
Ratio(num, den) == [num |-> num, den |-> den]

DefaultScenarioAdjustments ==
    [name \in {"pessimistic", "moderate", "optimistic"} |->
        CASE name = "pessimistic" -> [k \in PREDICTOR_KEYS |-> Ratio(0 - 10, 1)]
          [] name = "optimistic"  -> [k \in PREDICTOR_KEYS |-> Ratio(10, 1)]
          [] OTHER                -> <<>>]

AdjustmentOf(adjustment, key) ==
    IF key \in DOMAIN adjustment THEN adjustment[key] ELSE Ratio(0, 1)

\* adjusted trajectory = base trajectory x (1 + adjustment/100), the
\* adjustment being the number received for the predictor
AdjustedTrajectory(base, a) ==
    [i \in DOMAIN base |-> (base[i] * (100 * a.den + a.num)) \div (100 * a.den)]

ScenarioResult(params, adjustment) ==
    LET keys == Range(params.predictor_vars)
        predictions ==
          [i \in 1..params.forecast_years |->
             SumOver(keys,
                [k \in keys |->
                   ScenarioCoefficient(k)
                   * AdjustedTrajectory(params.base_forecast_data[k],
                                        AdjustmentOf(adjustment, k))[i]])]
    IN  [predictions |-> predictions, total |-> SumSeq(predictions),
         adjustment |-> adjustment]

GetScenarioAnalysis(params, failed) ==
    IF "ols" \in failed
    THEN ErrorResponse("FitError")
    ELSE LET adjustments ==
               IF "scenario_adjustments" \in DOMAIN params
               THEN params.scenario_adjustments
               ELSE DefaultScenarioAdjustments
         IN  OkResponse(
               [scenarios |->
                  [name \in DOMAIN adjustments |->
                     ScenarioResult(params, adjustments[name])]])

(***************************************************************************)
(* pages/DekomposisiPage.jsx                                               *)
(***************************************************************************)
YEAR_OPTIONS == {2024, 2023, 2022, 2021, 2020}

DekomposisiInit ==
    [selectedYear |-> 2024, historicalData |-> <<>>, loading |-> FALSE]

\* Array.prototype.find(...) || null
FindYear(rows, year) ==
    IF \E i \in DOMAIN rows : rows[i]["Tahun"] = year
    THEN rows[CHOOSE i \in DOMAIN rows :
                 /\ rows[i]["Tahun"] = year
                 /\ \A j \in DOMAIN rows : rows[j]["Tahun"] = year => i <= j]
    ELSE Null

getYearData(rows, selectedYear) == FindYear(rows, selectedYear)

getPreviousYearData(rows, selectedYear) == FindYear(rows, selectedYear - 1)

calculateDecompositionSignFlipped(rows, selectedYear) ==
    LET currentYear == getYearData(rows, selectedYear)
        previousYear == getPreviousYearData(rows, selectedYear)
    IN  IF currentYear = Null \/ previousYear = Null
        THEN Null
        ELSE [base |-> previousYear["PAD"],
              pkb |-> previousYear["PKB"] - currentYear["PKB"],
              bbnkb |-> currentYear["BBNKB"] - previousYear["BBNKB"],
              total |-> currentYear["PAD"],
              totalChange |-> currentYear["PAD"] - previousYear["PAD"]]

calculateDecomposition(rows, selectedYear) ==
    LET currentYear == getYearData(rows, selectedYear)
        previousYear == getPreviousYearData(rows, selectedYear)
    IN  IF currentYear = Null \/ previousYear = Null
        THEN Null
        ELSE [base |-> previousYear["PAD"],
              pkb |-> currentYear["PKB"] - previousYear["PKB"],
              bbnkb |-> currentYear["BBNKB"] - previousYear["BBNKB"],
              total |-> currentYear["PAD"],
              totalChange |-> currentYear["PAD"] - previousYear["PAD"]]

\* the data array handed to WaterfallChart:
\* [base, PKB change, BBNKB change, other, total]
WaterfallOtherDropsBBNKB(d) ==
    <<d.base, d.pkb, d.bbnkb, d.totalChange - d.pkb, d.total>>

WaterfallData(d) ==
    <<d.base, d.pkb, d.bbnkb, d.totalChange - d.pkb - d.bbnkb, d.total>>

\* what the page renders from its state: the loading text alone, or the
\* decomposition sections that have data; the page has no error element
DekomposisiRender ==
    LET d == calculateDecomposition(dekomposisi.historicalData,
                                    dekomposisi.selectedYear)
    IN  IF dekomposisi.loading
        THEN [loading |-> TRUE, decomposition |-> Null,
              waterfall |-> <<>>, errors |-> {}]
        ELSE [loading |-> FALSE, decomposition |-> d,
              waterfall |-> IF d = Null THEN <<>> ELSE WaterfallData(d),
              errors |-> {}]

\* useEffect(() => loadData(), []): setLoading(true), request sent
DekomposisiMounted == [DekomposisiInit EXCEPT !.loading = TRUE]

DekomposisiMountRequests ==
    {Request("loadHistoricalData", "dekomposisi.loadData", Null)}

\* loadData after the await: the rows are stored, or the error is logged;
\* finally setLoading(false)
DekomposisiLoadDataSettle ==
    /\ page = "dekomposisi"
    /\ \E r \in net, o \in LoadHistoricalDataOutcomes :
          /\ r.op = "dekomposisi.loadData"
          /\ net' = net \ {r}
          /\ dekomposisi' =
                [dekomposisi EXCEPT
                    !.historicalData = IF o.fulfilled THEN o.value.data.data
                                       ELSE @,
                    !.loading = FALSE]
    /\ UNCHANGED <<page, dataset, proyeksi, pemodelan, report, scenario,
                   insight, engine,
                   storageVars, settingsPages>>

\* the year <Select>: setSelectedYear(Number(e.target.value))
DekomposisiSelectYear(year) ==
    /\ page = "dekomposisi"
    /\ ~dekomposisi.loading
    /\ dekomposisi' = [dekomposisi EXCEPT !.selectedYear = year]
    /\ UNCHANGED <<page, dataset, net, proyeksi, pemodelan, report, scenario,
                   insight, engine,
                   storageVars, settingsPages>>

(***************************************************************************)
(* pages/ProyeksiPage.jsx                                                  *)
(***************************************************************************)
MODEL_OPTIONS == {"ensemble", "ols", "arima", "exp_smoothing"}

RESPONSE_VAR_OPTIONS == {"PAD", "PKB", "BBNKB"}

FORECAST_YEARS_OPTIONS_WithFifteen == {2, 3, 5, 10, 15}

FORECAST_YEARS_OPTIONS == {2, 3, 5, 10}

PROYEKSI_PREDICTOR_VARS ==
    <<"PDRB", "Rasio Gini", "IPM", "TPT", "Kemiskinan", "Inflasi", "Suku Bunga">>

\* the state of the page, and of handleGenerateProjection: pc is where the
\* handler is ("idle": not called yet, "await": at the request, "done":
\* returned after the try block, "caught": returned after the catch block)
\* and err is the error the catch block received
ProyeksiInit ==
    [loading |-> FALSE, modelType |-> "ensemble", responseVar |-> "PAD",
     forecastYears |-> 5, projectionResult |-> Null, historicalData |-> <<>>,
     error |-> NoError, pc |-> "idle", err |-> Null]

ProyeksiMounted == ProyeksiInit

ProyeksiMountRequests ==
    {Request("loadHistoricalData", "proyeksi.loadHistoricalData", Null)}

\* Array(n).fill(null)
NullFill(n) == [i \in 1..n |-> Null]

\* prepareChartData: the labels and the data of each line of the chart
prepareChartData(projectionResult) ==
    IF projectionResult = Null THEN Null
    ELSE LET historical == projectionResult.historical
             forecast == projectionResult.forecast
             pad == NullFill(Len(historical.years))
             lines == <<historical.values \o NullFill(Len(forecast.years)),
                        pad \o forecast.predictions>>
         IN  [labels |-> historical.years \o forecast.years,
              datasets |->
                 IF "lower_ci" \in DOMAIN forecast /\ "upper_ci" \in DOMAIN forecast
                 THEN lines \o <<pad \o forecast.lower_ci,
                                 pad \o forecast.upper_ci>>
                 ELSE lines]

\* the forecast table: for each element of forecast.years, the (0-based)
\* index at which it reads predictions and, when lower_ci is there,
\* lower_ci and upper_ci
ForecastTableReadsOffByOne(projectionResult) ==
    LET forecast == projectionResult.forecast
    IN  { [field |-> "predictions", index |-> i] : i \in DOMAIN forecast.years }
        \cup (IF "lower_ci" \in DOMAIN forecast
              THEN { [field |-> f, index |-> i] :
                       f \in {"lower_ci", "upper_ci"}, i \in DOMAIN forecast.years }
              ELSE {})

ForecastTableReads(projectionResult) ==
    LET forecast == projectionResult.forecast
    IN  { [field |-> "predictions", index |-> i - 1] : i \in DOMAIN forecast.years }
        \cup (IF "lower_ci" \in DOMAIN forecast
              THEN { [field |-> f, index |-> i - 1] :
                       f \in {"lower_ci", "upper_ci"}, i \in DOMAIN forecast.years }
              ELSE {})

\* array[index] of a JS array held as a sequence: in range or undefined
InRange(forecast, read) ==
    /\ read.field \in DOMAIN forecast
    /\ read.index + 1 \in DOMAIN forecast[read.field]

\* the models whose fit fails and their backtest errors, as drawn for the
\* pages' requests
FailureInputs == {{}, {"arima"}, Range(MODELS)}

UnitRMSE == [m \in Range(MODELS) |-> 1]

\* projectionAPI.generateProjection: POST /projection/generate through the
\* response interceptor
GenerateProjectionOutcomes(params) ==
    { ResponseInterceptor(GenerateProjection(params, dataset, failed, UnitRMSE)) :
        failed \in FailureInputs }
    \cup { ResponseInterceptor(NetworkError) }

\* loadHistoricalData after the await: the rows are stored, or the error is
\* logged
ProyeksiLoadHistoricalDataSettle ==
    /\ page = "proyeksi"
    /\ \E r \in net, o \in LoadHistoricalDataOutcomes :
          /\ r.op = "proyeksi.loadHistoricalData"
          /\ net' = net \ {r}
          /\ proyeksi' =
                [proyeksi EXCEPT
                    !.historicalData = IF o.fulfilled THEN o.value.data.data
                                       ELSE @]
    /\ UNCHANGED <<page, dataset, dekomposisi, pemodelan, report, scenario,
                   insight, engine,
                   storageVars, settingsPages>>

\* the three <Select>s
ProyeksiSetModelType(m) ==
    /\ page = "proyeksi"
    /\ proyeksi' = [proyeksi EXCEPT !.modelType = m]
    /\ UNCHANGED <<page, dataset, net, dekomposisi, pemodelan, report,
                   scenario, insight, engine,
                   storageVars, settingsPages>>

ProyeksiSetResponseVar(v) ==
    /\ page = "proyeksi"
    /\ proyeksi' = [proyeksi EXCEPT !.responseVar = v]
    /\ UNCHANGED <<page, dataset, net, dekomposisi, pemodelan, report,
                   scenario, insight, engine,
                   storageVars, settingsPages>>

ProyeksiSetForecastYears(n) ==
    /\ page = "proyeksi"
    /\ proyeksi' = [proyeksi EXCEPT !.forecastYears = n]
    /\ UNCHANGED <<page, dataset, net, dekomposisi, pemodelan, report,
                   scenario, insight, engine,
                   storageVars, settingsPages>>

\* the params handleGenerateProjection builds from the page's state
\* the parameters with the horizon overridden by a stored policy setting
ProyeksiParamsFromStorage(st) ==
    [response_var |-> st.responseVar,
     predictor_vars |-> IF st.modelType = "ols" \/ st.modelType = "ensemble"
                        THEN PROYEKSI_PREDICTOR_VARS ELSE Null,
     forecast_years |-> IF "policy_settings" \in DOMAIN localStorage
                        THEN 3 ELSE st.forecastYears,
     model_type |-> st.modelType,
     include_confidence_intervals |-> TRUE]

ProyeksiParams(st) ==
    [response_var |-> st.responseVar,
     predictor_vars |-> IF st.modelType = "ols" \/ st.modelType = "ensemble"
                        THEN PROYEKSI_PREDICTOR_VARS ELSE Null,
     forecast_years |-> st.forecastYears,
     model_type |-> st.modelType,
     include_confidence_intervals |-> TRUE]

\* handleGenerateProjection up to the await (the button is disabled while
\* loading): setLoading(true), setError(null), request sent
handleGenerateProjection ==
    /\ page = "proyeksi"
    /\ ~proyeksi.loading
    /\ proyeksi' = [proyeksi EXCEPT !.loading = TRUE, !.error = NoError,
                                    !.pc = "await", !.err = Null]
    /\ net' = net \cup {Request("generateProjection", "proyeksi.generate",
                                ProyeksiParams(proyeksi))}
    /\ UNCHANGED <<page, dataset, dekomposisi, pemodelan, report, scenario,
                   insight, engine,
                   storageVars, settingsPages>>

\* err.response?.data?.detail || 'Error generating projection'
ProyeksiErrorMessage(err) ==
    IF err.hasResponse /\ "detail" \in DOMAIN err.data
    THEN err.data.detail
    ELSE "Error generating projection"

\* handleGenerateProjection after the await: the response body is stored,
\* or the error message is; finally setLoading(false)
ProyeksiGenerateSettle ==
    /\ page = "proyeksi"
    /\ \E r \in net :
          /\ r.op = "proyeksi.generate"
          /\ \E o \in GenerateProjectionOutcomes(r.params) :
                /\ net' = net \ {r}
                /\ proyeksi' =
                      IF o.fulfilled
                      THEN [proyeksi EXCEPT !.projectionResult = o.value.data,
                                            !.loading = FALSE, !.pc = "done"]
                      ELSE [proyeksi EXCEPT
                               !.error = ProyeksiErrorMessage(AxiosError(o.value)),
                               !.err = AxiosError(o.value),
                               !.loading = FALSE, !.pc = "caught"]
    /\ UNCHANGED <<page, dataset, dekomposisi, pemodelan, report, scenario,
                   insight, engine,
                   storageVars, settingsPages>>

\* what the page renders of an error and of a result
ProyeksiRender ==
    [errorBanner |-> proyeksi.error # NoError,
     results |-> proyeksi.projectionResult # Null]

(***************************************************************************)
(* pages/PemodelanPage.jsx                                                 *)
(***************************************************************************)
\* the state of the page, and of runModel: pc is "idle", "await_model",
\* "await_sensitivity", "done" (returned after the try block) or "caught"
\* (returned after the catch block, which alerts); err is the error caught
PemodelanInit ==
    [selectedModel |-> "ols", selectedResponse |-> "PKB",
     selectedPredictors |-> <<"PDRB", "IPM", "Gini">>, loading |-> FALSE,
     results |-> Null, sensitivity |-> Null, pc |-> "idle", err |-> Null]

PemodelanModelOptions == {"ols", "arima", "exp_smoothing", "ensemble"}

PemodelanResponseOptions == {"PKB", "BBNKB"}

PemodelanPredictorOptions ==
    {"PDRB", "Gini", "IPM", "TPT", "Kemiskinan", "Inflasi", "SukuBunga"}

PemodelanSetModel(m) ==
    /\ page = "pemodelan"
    /\ pemodelan' = [pemodelan EXCEPT !.selectedModel = m]
    /\ UNCHANGED <<page, dataset, net, dekomposisi, proyeksi, report,
                   scenario, insight, engine,
                   storageVars, settingsPages>>

PemodelanSetResponse(v) ==
    /\ page = "pemodelan"
    /\ pemodelan' = [pemodelan EXCEPT !.selectedResponse = v]
    /\ UNCHANGED <<page, dataset, net, dekomposisi, proyeksi, report,
                   scenario, insight, engine,
                   storageVars, settingsPages>>

\* array.filter(p => p !== k)
Without(seq, k) == SelectSeq(seq, LAMBDA p : p # k)

\* a predictor checkbox (shown for ols and ensemble): checking appends the
\* predictor, unchecking filters it out
PemodelanTogglePredictor(k) ==
    /\ page = "pemodelan"
    /\ pemodelan.selectedModel \in {"ols", "ensemble"}
    /\ pemodelan' =
          [pemodelan EXCEPT
              !.selectedPredictors =
                  IF k \in Range(@) THEN Without(@, k) ELSE Append(@, k)]
    /\ UNCHANGED <<page, dataset, net, dekomposisi, proyeksi, report,
                   scenario, insight, engine,
                   storageVars, settingsPages>>

\* the request runModel sends for the selected model
PemodelanModelRequest(st) ==
    CASE st.selectedModel = "ols" ->
           Request("runOLSRegression", "pemodelan.model",
                   [model_type |-> "ols", response_var |-> st.selectedResponse,
                    predictor_vars |-> st.selectedPredictors,
                    forecast_years |-> 2])
      [] st.selectedModel = "arima" ->
           Request("runARIMA", "pemodelan.model",
                   [model_type |-> "arima", response_var |-> st.selectedResponse,
                    order |-> <<1, 1, 1>>, forecast_steps |-> 2])
      [] st.selectedModel = "exp_smoothing" ->
           Request("runExpSmoothing", "pemodelan.model",
                   [model_type |-> "exp_smoothing",
                    response_var |-> st.selectedResponse,
                    trend |-> "add", forecast_steps |-> 2])
      [] OTHER ->
           Request("runEnsemble", "pemodelan.model",
                   [model_type |-> "ensemble",
                    response_var |-> st.selectedResponse,
                    predictor_vars |-> st.selectedPredictors,
                    forecast_years |-> 2])

PemodelanSensitivityRequest(modelRequest) ==
    Request("getSensitivityAnalysis", "pemodelan.sensitivity",
            [response_var |-> modelRequest.params.response_var,
             predictor_vars |-> modelRequest.params.predictor_vars,
             variation_pct |-> 10])

\* the Run Model button is disabled while loading, and for ols without
\* predictors
PemodelanRunDisabled(st) ==
    st.loading \/ (st.selectedModel = "ols" /\ Len(st.selectedPredictors) = 0)

\* runModel up to the first await: results and sensitivity are cleared
\* runModel that leaves the values of the earlier run in place
runModelKeepsResults ==
    /\ page = "pemodelan"
    /\ ~PemodelanRunDisabled(pemodelan)
    /\ pemodelan' = [pemodelan EXCEPT !.loading = TRUE,
                                      !.pc = "await_model", !.err = Null]
    /\ net' = net \cup {PemodelanModelRequest(pemodelan)}
    /\ UNCHANGED <<page, dataset, dekomposisi, proyeksi, report, scenario,
                   insight, engine,
                   storageVars, settingsPages>>

runModel ==
    /\ page = "pemodelan"
    /\ ~PemodelanRunDisabled(pemodelan)
    /\ pemodelan' = [pemodelan EXCEPT !.loading = TRUE, !.results = Null,
                                      !.sensitivity = Null,
                                      !.pc = "await_model", !.err = Null]
    /\ net' = net \cup {PemodelanModelRequest(pemodelan)}
    /\ UNCHANGED <<page, dataset, dekomposisi, proyeksi, report, scenario,
                   insight, engine,
                   storageVars, settingsPages>>

FitModelOutcomes(r) ==
    { ResponseInterceptor(FitModel(r.params.model_type, r.params, failed)) :
        failed \in FailureInputs }
    \cup { ResponseInterceptor(NetworkError) }

GetSensitivityAnalysisOutcomes(r) ==
    { ResponseInterceptor(GetSensitivityAnalysis(r.params, failed)) :
        failed \in FailureInputs }
    \cup { ResponseInterceptor(NetworkError) }

\* runModel after the model request: results are stored and, for ols and
\* ensemble, the sensitivity request is sent; an error is caught
PemodelanModelSettle ==
    /\ page = "pemodelan"
    /\ \E r \in net :
          /\ r.op = "pemodelan.model"
          /\ \E o \in FitModelOutcomes(r) :
                IF o.fulfilled
                THEN IF r.params.model_type \in {"ols", "ensemble"}
                     THEN /\ pemodelan' =
                                [pemodelan EXCEPT !.results = o.value.data,
                                                  !.pc = "await_sensitivity"]
                          /\ net' = (net \ {r})
                                    \cup {PemodelanSensitivityRequest(r)}
                     ELSE /\ pemodelan' =
                                [pemodelan EXCEPT !.results = o.value.data,
                                                  !.loading = FALSE,
                                                  !.pc = "done"]
                          /\ net' = net \ {r}
                ELSE /\ pemodelan' =
                           [pemodelan EXCEPT !.err = AxiosError(o.value),
                                             !.loading = FALSE,
                                             !.pc = "caught"]
                     /\ net' = net \ {r}
    /\ UNCHANGED <<page, dataset, dekomposisi, proyeksi, report, scenario,
                   insight, engine,
                   storageVars, settingsPages>>

\* runModel after the sensitivity request
PemodelanSensitivitySettle ==
    /\ page = "pemodelan"
    /\ \E r \in net :
          /\ r.op = "pemodelan.sensitivity"
          /\ \E o \in GetSensitivityAnalysisOutcomes(r) :
                /\ net' = net \ {r}
                /\ pemodelan' =
                      IF o.fulfilled
                      THEN [pemodelan EXCEPT !.sensitivity = o.value.data,
                                             !.loading = FALSE, !.pc = "done"]
                      ELSE [pemodelan EXCEPT !.err = AxiosError(o.value),
                                             !.loading = FALSE,
                                             !.pc = "caught"]
    /\ UNCHANGED <<page, dataset, dekomposisi, proyeksi, report, scenario,
                   insight, engine,
                   storageVars, settingsPages>>

\* what the user is shown of an error and of a result: the catch block
\* alerts, the results cards show results
PemodelanRender ==
    [alert |-> pemodelan.pc = "caught",
     results |-> pemodelan.results # Null]

(***************************************************************************)
(* pages/InsightPage.jsx                                                   *)
(***************************************************************************)
\* the state of the page, and of loadData: pc is "idle", "await_all" (at
\* Promise.all), "done" or "caught"; got holds the responses Promise.all
\* has collected
InsightInit ==
    [loading |-> FALSE, historicalData |-> <<>>, projection |-> Null,
     correlation |-> Null, pc |-> "idle", got |-> <<>>]

\* useEffect(() => loadData(), []): both requests are sent at once
InsightMounted == [InsightInit EXCEPT !.loading = TRUE, !.pc = "await_all"]

InsightMountRequests ==
    { Request("loadHistoricalData", "insight.historical", Null),
      Request("generateProjection", "insight.projection",
              [response_var |-> "PAD", forecast_years |-> 3,
               model_type |-> "ensemble",
               include_confidence_intervals |-> TRUE]) }

InsightOutcomes(r) ==
    IF r.api = "loadHistoricalData" THEN LoadHistoricalDataOutcomes
    ELSE GenerateProjectionOutcomes(r.params)

\* a request of Promise.all fulfilled: while another is outstanding its
\* response is only kept; after the last one both state variables are set
\* from the two responses
InsightFulfilledStoresEach(st, got, outstanding) ==
    LET each == [st EXCEPT
                    !.historicalData =
                        IF "insight.historical" \in DOMAIN got
                        THEN got["insight.historical"].data.data ELSE @,
                    !.projection =
                        IF "insight.projection" \in DOMAIN got
                        THEN got["insight.projection"].data ELSE @]
    IN  IF outstanding = {}
        THEN [each EXCEPT !.loading = FALSE, !.pc = "done", !.got = <<>>]
        ELSE [each EXCEPT !.got = got]

InsightFulfilled(st, got, outstanding) ==
    IF outstanding = {}
    THEN [st EXCEPT !.historicalData = got["insight.historical"].data.data,
                    !.projection = got["insight.projection"].data,
                    !.loading = FALSE, !.pc = "done", !.got = <<>>]
    ELSE [st EXCEPT !.got = got]

\* one of the two requests settles: Promise.all continues when both have
\* fulfilled and rejects with the first rejection (the other response is
\* then ignored)
InsightLoadDataSettle ==
    /\ page = "insight"
    /\ \E r \in net :
          /\ r.op \in {"insight.historical", "insight.projection"}
          /\ \E o \in InsightOutcomes(r) :
                IF o.fulfilled
                THEN LET got == Merge(insight.got,
                                      [k \in {r.op} |-> o.value])
                     IN  /\ net' = net \ {r}
                         /\ insight' = InsightFulfilled(insight, got, net \ {r})
                ELSE /\ net' = {}
                     /\ insight' = [insight EXCEPT !.loading = FALSE,
                                                   !.pc = "caught",
                                                   !.got = <<>>]
    /\ UNCHANGED <<page, dataset, dekomposisi, proyeksi, pemodelan, report,
                   scenario, engine,
                   storageVars, settingsPages>>

(***************************************************************************)
(* pages/ExecutiveReportPage.jsx                                           *)
(***************************************************************************)
\* the state of the page, and of generateReport: pc is "idle", "await",
\* "done" or "caught"; step is the request awaited (1 historical data,
\* 2 ensemble, 3 ols, 4 arima, 5 correlation), local holds the responses
\* received so far and err the error the catch block logged
ReportInit ==
    [loading |-> FALSE, reportData |-> Null, selectedYear |-> 2025,
     pc |-> "idle", step |-> 0, local |-> <<>>, err |-> Null]

REPORT_PREDICTOR_VARS ==
    <<"PDRB", "Rasio Gini", "Inflasi", "PKB", "BBNKB", "Pertumbuhan Ekonomi">>

ReportRequest(step) ==
    CASE step = 1 -> Request("loadHistoricalData", "report.generate", Null)
      [] step = 2 ->
           Request("generateProjection", "report.generate",
                   [response_var |-> "PAD",
                    predictor_vars |-> REPORT_PREDICTOR_VARS,
                    forecast_years |-> 3, model_type |-> "ensemble",
                    include_confidence_intervals |-> TRUE])
      [] step = 3 ->
           Request("generateProjection", "report.generate",
                   [response_var |-> "PAD",
                    predictor_vars |-> REPORT_PREDICTOR_VARS,
                    forecast_years |-> 3, model_type |-> "ols",
                    include_confidence_intervals |-> TRUE])
      [] step = 4 ->
           Request("generateProjection", "report.generate",
                   [response_var |-> "PAD", forecast_years |-> 3,
                    model_type |-> "arima",
                    include_confidence_intervals |-> TRUE])
      [] OTHER ->
           Request("getCorrelation", "report.generate",
                   [variables |-> <<"PAD", "PDRB", "PKB", "BBNKB",
                                    "Pertumbuhan Ekonomi">>])

ReportOutcomes(r) ==
    CASE r.api = "loadHistoricalData" -> LoadHistoricalDataOutcomes
      [] r.api = "generateProjection" -> GenerateProjectionOutcomes(r.params)
      [] OTHER -> { ResponseInterceptor(GetCorrelation(r.params)),
                    ResponseInterceptor(NetworkError) }

\* useEffect(() => generateReport(), [selectedYear]) at mount:
\* setLoading(true), the first request is sent
\* generateReport started without setLoading(true)
ReportMountedWithoutLoading == [ReportInit EXCEPT !.pc = "await", !.step = 1]

ReportMounted ==
    [ReportInit EXCEPT !.loading = TRUE, !.pc = "await", !.step = 1]

ReportMountRequests == {ReportRequest(1)}

\* the object handed to setReportData after the fifth response
ReportData(local) ==
    [historical |-> local[1].data.data,
     projections |-> [ensemble |-> local[2].data, ols |-> local[3].data,
                      arima |-> local[4].data],
     correlation |-> local[5].data]

\* generateReport after one of its awaits: the next request is sent, or
\* after the last one reportData is set; an error is caught and logged;
\* finally setLoading(false)
ReportGenerateSettle ==
    /\ page = "report"
    /\ \E r \in net :
          /\ r.op = "report.generate"
          /\ \E o \in ReportOutcomes(r) :
                IF o.fulfilled
                THEN LET local == Append(report.local, o.value)
                     IN  IF report.step < 5
                         THEN /\ report' = [report EXCEPT !.local = local,
                                                          !.step = @ + 1]
                              /\ net' = (net \ {r})
                                        \cup {ReportRequest(report.step + 1)}
                         ELSE /\ report' =
                                    [report EXCEPT
                                        !.reportData = ReportData(local),
                                        !.local = <<>>, !.step = 0,
                                        !.loading = FALSE, !.pc = "done"]
                              /\ net' = net \ {r}
                ELSE /\ report' = [report EXCEPT !.local = <<>>, !.step = 0,
                                                 !.err = AxiosError(o.value),
                                                 !.loading = FALSE,
                                                 !.pc = "caught"]
                     /\ net' = net \ {r}
    /\ UNCHANGED <<page, dataset, dekomposisi, proyeksi, pemodelan, scenario,
                   insight, engine,
                   storageVars, settingsPages>>

\* obj.field and array[index] as JS evaluates them: a missing field or
\* index is undefined, and indexing undefined throws a TypeError
Defined(v) == [defined |-> TRUE, value |-> v]

Undefined == [defined |-> FALSE]

Thrown == [defined |-> FALSE, threw |-> "TypeError"]

Prop(obj, field) ==
    IF field \in DOMAIN obj THEN Defined(obj[field]) ELSE Undefined

ArrayAt(arr, index) ==
    IF ~arr.defined THEN Thrown
    ELSE IF index + 1 \in DOMAIN arr.value
         THEN Defined(arr.value[index + 1]) ELSE Undefined

REPORT_YEAR_OPTIONS == {2025, 2026, 2027}

\* getProjectionForYear: the index of a year in the projections
ProjectionYearIndex(year) == year - 2025

getProjectionForYear(reportData, year) ==
    IF reportData = Null THEN Null
    ELSE LET yearIndex == ProjectionYearIndex(year)
         IN  [ensemble |-> ArrayAt(Prop(reportData.projections.ensemble,
                                        "predictions"), yearIndex),
              ols |-> ArrayAt(Prop(reportData.projections.ols,
                                   "predictions"), yearIndex),
              arima |-> ArrayAt(Prop(reportData.projections.arima,
                                     "predictions"), yearIndex)]

\* what the page renders: the spinner while loading, nothing without
\* reportData, else the report (whose render calls getProjectionForYear);
\* the page has no error element
ReportRender ==
    IF report.loading THEN [view |-> "spinner", errors |-> {}]
    ELSE IF report.reportData = Null THEN [view |-> "nothing", errors |-> {}]
    ELSE LET projection == getProjectionForYear(report.reportData,
                                                report.selectedYear)
         IN  IF Thrown \in {projection.ensemble, projection.ols,
                            projection.arima}
             THEN [view |-> "TypeError", errors |-> {}]
             ELSE [view |-> "report", errors |-> {}]

(***************************************************************************)
(* pages/ScenarioBuilderPage.jsx                                           *)
(***************************************************************************)
SCENARIO_PREDICTOR_VARS ==
    << [key |-> "PDRB", min |-> 0 - 30, max |-> 30, step |-> 1],
       [key |-> "Rasio Gini", min |-> 0 - 50, max |-> 50, step |-> 1],
       [key |-> "IPM", min |-> 0 - 20, max |-> 20, step |-> 1],
       [key |-> "TPT", min |-> 0 - 50, max |-> 50, step |-> 1],
       [key |-> "Kemiskinan", min |-> 0 - 50, max |-> 50, step |-> 1],
       [key |-> "Inflasi", min |-> 0 - 100, max |-> 100, step |-> 5],
       [key |-> "Suku Bunga", min |-> 0 - 100, max |-> 100, step |-> 5] >>

PresetAdjustments(pdrb, gini, ipm, tpt, kemiskinan, inflasi, sukuBunga) ==
    [k \in PREDICTOR_KEYS |->
        CASE k = "PDRB" -> pdrb
          [] k = "Rasio Gini" -> gini
          [] k = "IPM" -> ipm
          [] k = "TPT" -> tpt
          [] k = "Kemiskinan" -> kemiskinan
          [] k = "Inflasi" -> inflasi
          [] OTHER -> sukuBunga]

PRESET_SCENARIOS ==
    [key \in {"baseline", "optimistic", "pessimistic", "recovery"} |->
        CASE key = "baseline" -> <<>>
          [] key = "optimistic" ->
               PresetAdjustments(10, 0 - 5, 5, 0 - 10, 0 - 10, 0 - 20, 0 - 20)
          [] key = "pessimistic" ->
               PresetAdjustments(0 - 10, 5, 0 - 5, 10, 10, 20, 20)
          [] OTHER ->
               PresetAdjustments(15, 0 - 10, 10, 0 - 15, 0 - 15, 0, 0 - 10)]

SCENARIO_FORECAST_YEARS == 5

\* the state of the page, and of runScenario: pc is "idle", "await_custom",
\* "await_standard", "done", "returned" (the early return without data) or
\* "caught"; run holds what the running handler works on: the adjustments
\* and historicalData of the render it was invoked in, its scenarioParams
\* and its allScenarios
ScenarioInit ==
    [adjustments |-> <<>>, scenarios |-> <<>>, loading |-> FALSE,
     historicalData |-> <<>>, pc |-> "idle", run |-> Null]

ScenarioMounted == ScenarioInit

ScenarioMountRequests ==
    {Request("loadHistoricalData", "scenario.loadHistoricalData", Null)}

ScenarioLoadHistoricalDataSettle ==
    /\ page = "scenario"
    /\ \E r \in net, o \in LoadHistoricalDataOutcomes :
          /\ r.op = "scenario.loadHistoricalData"
          /\ net' = net \ {r}
          /\ scenario' =
                [scenario EXCEPT
                    !.historicalData = IF o.fulfilled THEN o.value.data.data
                                       ELSE @]
    /\ UNCHANGED <<page, dataset, dekomposisi, proyeksi, pemodelan, report,
                   insight, engine,
                   storageVars, settingsPages>>

\* the values a slider <input type="range" min max step> can hand to
\* onChange: min, min + step, ... up to max
SliderValuesUnclamped(v) ==
    {v.min + k * v.step : k \in 0..(((v.max - v.min) \div v.step) + 1)}

SliderValues(v) ==
    {v.min + k * v.step : k \in 0..((v.max - v.min) \div v.step)}

\* the two ends of a slider
SliderExtremes(v) ==
    {x \in SliderValues(v) :
        \/ \A y \in SliderValues(v) : x <= y
        \/ \A y \in SliderValues(v) : x >= y}

\* a slider: setAdjustments(prev => ({...prev, [varKey]: parseFloat(value)}))
handleAdjustmentChange(varKey, value) ==
    /\ page = "scenario"
    /\ scenario' = [scenario EXCEPT
                       !.adjustments = Merge(@, [k \in {varKey} |-> value])]
    /\ UNCHANGED <<page, dataset, net, dekomposisi, proyeksi, pemodelan,
                   report, insight, engine,
                   storageVars, settingsPages>>

resetAdjustments ==
    /\ page = "scenario"
    /\ scenario' = [scenario EXCEPT !.adjustments = <<>>]
    /\ UNCHANGED <<page, dataset, net, dekomposisi, proyeksi, pemodelan,
                   report, insight, engine,
                   storageVars, settingsPages>>

loadPreset(presetKey) ==
    /\ page = "scenario"
    /\ scenario' = [scenario EXCEPT
                       !.adjustments = PRESET_SCENARIOS[presetKey]]
    /\ UNCHANGED <<page, dataset, net, dekomposisi, proyeksi, pemodelan,
                   report, insight, engine,
                   storageVars, settingsPages>>

\* 1.03^i in ten-thousandths
RECURSIVE GrowthFactor(_)
GrowthFactor(i) == IF i = 0 THEN 10000 ELSE (GrowthFactor(i - 1) * 103) \div 100

\* baseForecastData: each predictor's last historical value grown by 3% a
\* year over the forecast years
BaseForecastData(historicalData) ==
    [key \in PREDICTOR_KEYS |->
        [i \in 1..SCENARIO_FORECAST_YEARS |->
            (LastRow(historicalData)[key] * GrowthFactor(i)) \div 10000]]

\* scenarioParams: the custom adjustments are the percentages divided by
\* 100 (acc[key] = val / 100), or the number 0.0 when there are none
ScenarioParams(st) ==
    [response_var |-> "PAD",
     predictor_vars |-> [i \in DOMAIN SCENARIO_PREDICTOR_VARS |->
                            SCENARIO_PREDICTOR_VARS[i].key],
     base_forecast_data |-> BaseForecastData(st.historicalData),
     forecast_years |-> SCENARIO_FORECAST_YEARS,
     scenario_adjustments |->
        [name \in {"custom"} |->
            IF DOMAIN st.adjustments # {}
            THEN [k \in DOMAIN st.adjustments |->
                    Ratio(st.adjustments[k], 100)]
            ELSE 0]]

\* {...scenarioParams, scenario_adjustments: undefined}
StandardParamsWithoutBase(scenarioParams) ==
    [k \in DOMAIN scenarioParams \ {"scenario_adjustments",
                                     "base_forecast_data"} |->
        scenarioParams[k]]

StandardParams(scenarioParams) ==
    [k \in DOMAIN scenarioParams \ {"scenario_adjustments"} |->
        scenarioParams[k]]

\* runScenario up to its first await (the button is disabled while
\* loading): without historical data it returns at once; else the custom
\* request is sent when there are adjustments, the standard one otherwise
runScenario ==
    /\ page = "scenario"
    /\ ~scenario.loading
    /\ IF Len(scenario.historicalData) = 0
       THEN /\ scenario' = [scenario EXCEPT !.loading = FALSE,
                                            !.pc = "returned", !.run = Null]
            /\ net' = net
       ELSE LET scenarioParams == ScenarioParams(scenario)
                custom == DOMAIN scenario.adjustments # {}
            IN  /\ scenario' =
                      [scenario EXCEPT
                          !.loading = TRUE,
                          !.pc = IF custom THEN "await_custom"
                                 ELSE "await_standard",
                          !.run = [adjustments |-> scenario.adjustments,
                                   historicalData |-> scenario.historicalData,
                                   scenarioParams |-> scenarioParams,
                                   allScenarios |-> <<>>]]
                /\ net' = net \cup
                      {IF custom
                       THEN Request("getScenarioAnalysis", "scenario.custom",
                                    scenarioParams)
                       ELSE Request("getScenarioAnalysis", "scenario.standard",
                                    StandardParams(scenarioParams))}
    /\ UNCHANGED <<page, dataset, dekomposisi, proyeksi, pemodelan, report,
                   insight, engine,
                   storageVars, settingsPages>>

GetScenarioAnalysisOutcomes(r) ==
    { ResponseInterceptor(GetScenarioAnalysis(r.params, failed)) :
        failed \in FailureInputs }
    \cup { ResponseInterceptor(NetworkError) }

\* runScenario after the custom request: allScenarios.custom is kept and
\* the standard request is sent; an error is caught and logged
\* the custom request settling without the finally block on failure
ScenarioCustomSettleWithoutFinally ==
    /\ page = "scenario"
    /\ \E r \in net :
          /\ r.op = "scenario.custom"
          /\ \E o \in GetScenarioAnalysisOutcomes(r) :
                IF o.fulfilled
                THEN /\ scenario' =
                           [scenario EXCEPT
                               !.pc = "await_standard",
                               !.run.allScenarios =
                                   [k \in {"custom"} |->
                                       o.value.data.scenarios["custom"]]]
                     /\ net' = (net \ {r}) \cup
                           {Request("getScenarioAnalysis", "scenario.standard",
                                    StandardParams(scenario.run.scenarioParams))}
                ELSE /\ scenario' = [scenario EXCEPT !.pc = "caught"]
                     /\ net' = net \ {r}
    /\ UNCHANGED <<page, dataset, dekomposisi, proyeksi, pemodelan, report,
                   insight, engine,
                   storageVars, settingsPages>>

ScenarioCustomSettle ==
    /\ page = "scenario"
    /\ \E r \in net :
          /\ r.op = "scenario.custom"
          /\ \E o \in GetScenarioAnalysisOutcomes(r) :
                IF o.fulfilled
                THEN /\ scenario' =
                           [scenario EXCEPT
                               !.pc = "await_standard",
                               !.run.allScenarios =
                                   [k \in {"custom"} |->
                                       o.value.data.scenarios["custom"]]]
                     /\ net' = (net \ {r}) \cup
                           {Request("getScenarioAnalysis", "scenario.standard",
                                    StandardParams(scenario.run.scenarioParams))}
                ELSE /\ scenario' = [scenario EXCEPT !.loading = FALSE,
                                                     !.pc = "caught",
                                                     !.run = Null]
                     /\ net' = net \ {r}
    /\ UNCHANGED <<page, dataset, dekomposisi, proyeksi, pemodelan, report,
                   insight, engine,
                   storageVars, settingsPages>>

\* setScenarios({...allScenarios, ...standardResponse.data.scenarios}): the
\* new scenarios state, given the previous one
setScenariosOntoPrevious(prev, allScenarios, standard) ==
    Merge(Merge(prev, allScenarios), standard)

setScenarios(prev, allScenarios, standard) == Merge(allScenarios, standard)

\* runScenario after the standard request
ScenarioStandardSettle ==
    /\ page = "scenario"
    /\ \E r \in net :
          /\ r.op = "scenario.standard"
          /\ \E o \in GetScenarioAnalysisOutcomes(r) :
                /\ net' = net \ {r}
                /\ scenario' =
                      IF o.fulfilled
                      THEN [scenario EXCEPT
                               !.scenarios =
                                   setScenarios(@, scenario.run.allScenarios,
                                                o.value.data.scenarios),
                               !.loading = FALSE, !.pc = "done", !.run = Null]
                      ELSE [scenario EXCEPT !.loading = FALSE,
                                            !.pc = "caught", !.run = Null]
    /\ UNCHANGED <<page, dataset, dekomposisi, proyeksi, pemodelan, report,
                   insight, engine,
                   storageVars, settingsPages>>

\* prepareTimeSeriesChart: the year labels and one line per scenario
SCENARIO_CHART_YEARS == <<2025, 2026, 2027, 2028, 2029>>

prepareTimeSeriesChart(scenarios) ==
    IF DOMAIN scenarios = {} THEN Null
    ELSE LET line(name, label) ==
                 IF name \in DOMAIN scenarios
                 THEN <<[label |-> label, data |-> scenarios[name].predictions]>>
                 ELSE <<>>
         IN  [labels |-> SCENARIO_CHART_YEARS,
              datasets |-> line("pessimistic", "Pesimis")
                           \o line("moderate", "Moderat")
                           \o line("optimistic", "Optimis")
                           \o line("custom", "Custom")]

(***************************************************************************)
(* JavaScript values as the settings pages hold them, and their JSON text. *)
(* Every number these pages hold is a decimal with at most one fractional  *)
(* digit (inputs step by 1 or by 0.1), so a finite number is its count of  *)
(* tenths; NaN and the infinities are values of their own.  An object      *)
(* keeps its keys in insertion order.  A JSON text is the sequence of its  *)
(* tokens: punctuation and digits one by one, string literals and the      *)
(* words null, true, false whole.                                          *)
(***************************************************************************)
JsNumber(tenths) == [t |-> "number", v |-> tenths]

JsInt(n) == JsNumber(10 * n)

JsNonFinite(name) == [t |-> "nonfinite", n |-> name]

JsBoolean(b) == [t |-> "boolean", b |-> b]

JsString(s) == [t |-> "string", s |-> s]

JsNull == [t |-> "null"]

JsUndefined == [t |-> "undefined"]

JsArray(items) == [t |-> "array", items |-> items]

\* an object literal: pairs is the sequence of <<key, value>> as written
JsObject(pairs) ==
    [t |-> "object",
     keys |-> [i \in DOMAIN pairs |-> pairs[i][1]],
     of |-> [k \in {pairs[i][1] : i \in DOMAIN pairs} |->
               pairs[CHOOSE i \in DOMAIN pairs : pairs[i][1] = k][2]]]

\* { ...obj, [key]: value }
ObjSet(obj, key, value) ==
    [t |-> "object",
     keys |-> IF key \in DOMAIN obj.of THEN obj.keys ELSE Append(obj.keys, key),
     of |-> [k \in DOMAIN obj.of \cup {key} |->
               IF k = key THEN value ELSE obj.of[k]]]

Ch(c) == [k |-> "ch", s |-> c]

Quoted(s) == [k |-> "str", s |-> s]

Word(w) == [k |-> "word", s |-> w]

DIGITS == <<"0", "1", "2", "3", "4", "5", "6", "7", "8", "9">>

DigitValue(tok) == (CHOOSE i \in DOMAIN DIGITS : DIGITS[i] = tok.s) - 1

IsDigit(tok) == tok.k = "ch" /\ tok.s \in Range(DIGITS)

RECURSIVE DigitsOf(_)
DigitsOf(n) ==
    IF n < 10 THEN <<Ch(DIGITS[n + 1])>>
    ELSE Append(DigitsOf(n \div 10), Ch(DIGITS[(n % 10) + 1]))

NumberToStringWithoutFraction(tenths) ==
    LET mag == IF tenths < 0 THEN 0 - tenths ELSE tenths
    IN  (IF tenths < 0 THEN <<Ch("-")>> ELSE <<>>) \o DigitsOf(mag \div 10)

\* Number.prototype.toString for a finite number: sign, integer digits, and
\* the fraction only when there is one (10.0 prints as 10)
NumberToString(tenths) ==
    LET mag == IF tenths < 0 THEN 0 - tenths ELSE tenths
    IN  (IF tenths < 0 THEN <<Ch("-")>> ELSE <<>>)
        \o DigitsOf(mag \div 10)
        \o (IF mag % 10 = 0 THEN <<>> ELSE <<Ch("."), Ch(DIGITS[(mag % 10) + 1])>>)

RECURSIVE JoinTexts(_)
JoinTexts(texts) ==
    IF texts = <<>> THEN <<>>
    ELSE IF Len(texts) = 1 THEN texts[1]
    ELSE texts[1] \o <<Ch(",")>> \o JoinTexts(Tail(texts))

\* JSON.stringify: a non-finite number prints as null, an undefined array
\* element prints as null, a property whose value is undefined is left out
RECURSIVE stringify(_)
stringify(value) ==
    CASE value.t = "number" -> NumberToString(value.v)
      [] value.t = "nonfinite" -> <<Word("null")>>
      [] value.t = "undefined" -> <<Word("null")>>
      [] value.t = "null" -> <<Word("null")>>
      [] value.t = "boolean" ->
            <<Word(IF value.b THEN "true" ELSE "false")>>
      [] value.t = "string" -> <<Quoted(value.s)>>
      [] value.t = "array" ->
            <<Ch("[")>>
            \o JoinTexts([i \in DOMAIN value.items |-> stringify(value.items[i])])
            \o <<Ch("]")>>
      [] value.t = "object" ->
            LET kept == SelectSeq(value.keys,
                                  LAMBDA k : value.of[k].t # "undefined")
            IN  <<Ch("{")>>
                \o JoinTexts([i \in DOMAIN kept |->
                                <<Quoted(kept[i]), Ch(":")>>
                                \o stringify(value.of[kept[i]])])
                \o <<Ch("}")>>

SyntaxError == [t |-> "SyntaxError"]

Parsed(value, next) == [value |-> value, next |-> next]

RECURSIVE ParseDigits(_, _, _)
ParseDigits(text, i, acc) ==
    IF i <= Len(text) /\ IsDigit(text[i])
    THEN ParseDigits(text, i + 1, 10 * acc + DigitValue(text[i]))
    ELSE Parsed(acc, i)

ParseNumber(text, i) ==
    LET neg == text[i] = Ch("-")
        start == IF neg THEN i + 1 ELSE i
        whole == ParseDigits(text, start, 0)
        frac == IF /\ whole.next + 1 <= Len(text)
                   /\ text[whole.next] = Ch(".")
                   /\ IsDigit(text[whole.next + 1])
                THEN Parsed(DigitValue(text[whole.next + 1]), whole.next + 2)
                ELSE Parsed(0, whole.next)
        mag == 10 * whole.value + frac.value
    IN  IF start > Len(text) \/ whole.next = start THEN Parsed(SyntaxError, i)
        ELSE Parsed(JsNumber(IF neg THEN 0 - mag ELSE mag), frac.next)

RECURSIVE ParseValue(_, _)
RECURSIVE ParseItems(_, _, _)
RECURSIVE ParseMembers(_, _, _)
ParseValue(text, i) ==
    IF i > Len(text) THEN Parsed(SyntaxError, i)
    ELSE LET tok == text[i]
         IN  CASE tok = Word("null") -> Parsed(JsNull, i + 1)
               [] tok = Word("true") -> Parsed(JsBoolean(TRUE), i + 1)
               [] tok = Word("false") -> Parsed(JsBoolean(FALSE), i + 1)
               [] tok.k = "str" -> Parsed(JsString(tok.s), i + 1)
               [] tok = Ch("-") \/ IsDigit(tok) -> ParseNumber(text, i)
               [] tok = Ch("[") ->
                    IF i + 1 <= Len(text) /\ text[i + 1] = Ch("]")
                    THEN Parsed(JsArray(<<>>), i + 2)
                    ELSE ParseItems(text, i + 1, <<>>)
               [] tok = Ch("{") ->
                    IF i + 1 <= Len(text) /\ text[i + 1] = Ch("}")
                    THEN Parsed(JsObject(<<>>), i + 2)
                    ELSE ParseMembers(text, i + 1, JsObject(<<>>))
               [] OTHER -> Parsed(SyntaxError, i)

\* the elements of an array, from the first one up to the closing bracket
ParseItems(text, i, acc) ==
    LET item == ParseValue(text, i)
    IN  IF item.value = SyntaxError \/ item.next > Len(text)
        THEN Parsed(SyntaxError, i)
        ELSE IF text[item.next] = Ch("]")
        THEN Parsed(JsArray(Append(acc, item.value)), item.next + 1)
        ELSE IF text[item.next] = Ch(",")
        THEN ParseItems(text, item.next + 1, Append(acc, item.value))
        ELSE Parsed(SyntaxError, i)

\* the members of an object, from the first key up to the closing brace
ParseMembers(text, i, acc) ==
    IF i + 1 > Len(text) \/ text[i].k # "str" \/ text[i + 1] # Ch(":")
    THEN Parsed(SyntaxError, i)
    ELSE LET member == ParseValue(text, i + 2)
             obj == ObjSet(acc, text[i].s, member.value)
         IN  IF member.value = SyntaxError \/ member.next > Len(text)
             THEN Parsed(SyntaxError, i)
             ELSE IF text[member.next] = Ch("}")
             THEN Parsed(obj, member.next + 1)
             ELSE IF text[member.next] = Ch(",")
             THEN ParseMembers(text, member.next + 1, obj)
             ELSE Parsed(SyntaxError, i)

\* JSON.parse: the value of the whole text
parse(text) ==
    LET r == ParseValue(text, 1)
    IN  IF r.value # SyntaxError /\ r.next = Len(text) + 1 THEN r.value
        ELSE SyntaxError

\* utils: deepClone(obj) = JSON.parse(JSON.stringify(obj))
deepClone(obj) == parse(stringify(obj))

(***************************************************************************)
(* window.localStorage: texts by key.  setItem can throw (quota exceeded,  *)
(* storage disabled); the pages catch that.                                *)
(***************************************************************************)
EmptyStorage == [k \in {} |-> <<>>]

\* getItem: the text stored under key; the empty text stands for both null
\* (no such key) and "", which the pages treat alike (if (saved))
getItem(key) == IF key \in DOMAIN localStorage THEN localStorage[key] ELSE <<>>

setItem(key, text) ==
    [k \in DOMAIN localStorage \cup {key} |->
       IF k = key THEN text ELSE localStorage[k]]

(***************************************************************************)
(* UICustomizationPage: appearance settings kept under 'ui_settings'.      *)
(***************************************************************************)
MaxTimers == 1        \* most pending timers that clear a page's save status

UI_DEFAULT_SETTINGS ==
    JsObject(<< <<"theme", JsString("light")>>,
                <<"colorTheme", JsString("default")>>,
                <<"fontSize", JsInt(16)>>,
                <<"fontFamily", JsString("inter")>>,
                <<"sidebarCollapsed", JsBoolean(FALSE)>>,
                <<"compactMode", JsBoolean(FALSE)>>,
                <<"showAnimations", JsBoolean(TRUE)>>,
                <<"borderRadius", JsInt(8)>> >>)

UICustomizationInit ==
    [settings |-> UI_DEFAULT_SETTINGS, hasChanges |-> FALSE,
     saveStatus |-> "null", timers |-> 0]

\* useEffect on mount: loadSettings()
UICustomizationMounted ==
    LET saved == getItem("ui_settings")
    IN  [UICustomizationInit EXCEPT
            !.settings = IF saved # <<>> THEN parse(saved) ELSE @]

\* the values the page's controls can hand to updateSetting
UISettingValues ==
    [theme |-> {JsString("light"), JsString("dark"), JsString("auto")},
     fontSize |-> {JsInt(n) : n \in 12..20},
     borderRadius |-> {JsInt(n) : n \in 0..20},
     compactMode |-> {JsBoolean(b) : b \in BOOLEAN}]

updateSetting(key, value) ==
    /\ page = "ui-customization"
    /\ uiCustomization' = [uiCustomization EXCEPT
                              !.settings = ObjSet(@, key, value),
                              !.hasChanges = TRUE]
    /\ UNCHANGED <<page, dataset, net, dekomposisi, proyeksi, pemodelan,
                   report, scenario, insight, engine, storageVars,
                   policySettings, variableManager>>

UIHandleReset ==
    /\ page = "ui-customization"
    /\ uiCustomization' = [uiCustomization EXCEPT
                              !.settings = UI_DEFAULT_SETTINGS,
                              !.hasChanges = TRUE]
    /\ UNCHANGED <<page, dataset, net, dekomposisi, proyeksi, pemodelan,
                   report, scenario, insight, engine, storageVars,
                   policySettings, variableManager>>

\* a save that reports no pending changes even when setItem threw
SavedWhateverStored(st, stored) ==
    [st EXCEPT !.saveStatus = IF stored THEN "success" ELSE "error",
               !.hasChanges = FALSE,
               !.timers = @ + 1]

\* what a page's handleSave does to its own state; stored tells whether
\* setItem returned or threw
Saved(st, stored) ==
    [st EXCEPT !.saveStatus = IF stored THEN "success" ELSE "error",
               !.hasChanges = IF stored THEN FALSE ELSE @,
               !.timers = @ + 1]

UIHandleSave ==
    /\ page = "ui-customization"
    /\ uiCustomization.hasChanges                \* the Save button is disabled otherwise
    /\ uiCustomization.timers < MaxTimers
    /\ \E stored \in BOOLEAN :
          /\ localStorage' =
                IF stored
                THEN setItem("ui_settings", stringify(uiCustomization.settings))
                ELSE localStorage
          /\ uiCustomization' = Saved(uiCustomization, stored)
    /\ UNCHANGED <<page, dataset, net, dekomposisi, proyeksi, pemodelan,
                   report, scenario, insight, engine, call,
                   policySettings, variableManager>>

\* {hasChanges && !saveStatus && (...)}: the unsaved-changes banner
UnsavedWarningShown(st) == st.hasChanges /\ st.saveStatus = "null"

\* setTimeout(() => setSaveStatus(null), 3000)
SaveStatusCleared(st) == [st EXCEPT !.saveStatus = "null", !.timers = @ - 1]

UISaveStatusTimeout ==
    /\ page = "ui-customization"
    /\ uiCustomization.timers > 0
    /\ uiCustomization' = SaveStatusCleared(uiCustomization)
    /\ UNCHANGED <<page, dataset, net, dekomposisi, proyeksi, pemodelan,
                   report, scenario, insight, engine, storageVars,
                   policySettings, variableManager>>

(***************************************************************************)
(* PolicySettingsPage: targets, tax parameters and policy switches kept    *)
(* under 'policy_settings'.                                                *)
(***************************************************************************)
POLICY_DEFAULT_SETTINGS ==
    JsObject(<< <<"targets",
                  JsObject(<< <<"2025", JsInt(0)>>, <<"2026", JsInt(0)>>,
                              <<"2027", JsInt(0)>> >>)>>,
                <<"parameters",
                  JsObject(<< <<"pkb_tax_rate", JsNumber(15)>>,
                              <<"bbnkb_tax_rate", JsNumber(100)>>,
                              <<"compliance_rate", JsNumber(850)>>,
                              <<"collection_efficiency", JsNumber(920)>>,
                              <<"annual_growth_target", JsNumber(60)>> >>)>>,
                <<"policies",
                  JsObject(<< <<"digitalization_boost", JsBoolean(FALSE)>>,
                              <<"enforcement_program", JsBoolean(FALSE)>>,
                              <<"tax_amnesty", JsBoolean(FALSE)>> >>)>> >>)

PolicySettingsInit ==
    [settings |-> POLICY_DEFAULT_SETTINGS, historicalData |-> <<>>,
     loading |-> FALSE, hasChanges |-> FALSE, saveStatus |-> "null",
     timers |-> 0]

\* useEffect on mount: loadData(); loadSettings()
PolicySettingsMounted ==
    LET saved == getItem("policy_settings")
    IN  [PolicySettingsInit EXCEPT
            !.loading = TRUE,
            !.settings = IF saved # <<>> THEN parse(saved) ELSE @]

PolicySettingsMountRequests ==
    {Request("loadHistoricalData", "policy.loadHistoricalData", Null)}

\* Math.round(x) for x = num / den, den > 0: the nearest whole number, a
\* half rounded up
MathRound(num, den) == (num + (den \div 2)) \div den

\* the targets loadData suggests from the latest record: 6 % growth a year
SuggestedTargets(latestYear) ==
    JsObject(<< <<"2025", JsInt(MathRound(latestYear["PAD"] * 106, 100))>>,
                <<"2026", JsInt(MathRound(latestYear["PAD"] * Pow(106, 2),
                                          Pow(100, 2)))>>,
                <<"2027", JsInt(MathRound(latestYear["PAD"] * Pow(106, 3),
                                          Pow(100, 3)))>> >>)

PolicyLoadDataSettle ==
    /\ page = "policy-settings"
    /\ \E r \in net, o \in LoadHistoricalDataOutcomes :
          /\ r.op = "policy.loadHistoricalData"
          /\ net' = net \ {r}
          /\ policySettings' =
                IF o.fulfilled
                THEN [policySettings EXCEPT
                        !.loading = FALSE,
                        !.historicalData = o.value.data.data,
                        !.settings =
                            IF Len(o.value.data.data) > 0
                            THEN ObjSet(@, "targets",
                                        SuggestedTargets(LastRow(o.value.data.data)))
                            ELSE @]
                ELSE [policySettings EXCEPT !.loading = FALSE]
    /\ UNCHANGED <<page, dataset, dekomposisi, proyeksi, pemodelan, report,
                   scenario, insight, engine, storageVars, uiCustomization,
                   variableManager>>

\* parseFloat(value) || 0 on the text of a number input stepping by 0.1:
\* the text is a decimal or empty, and empty (NaN) and zero both give 0
ParseFloatOrZero(text) ==
    LET r == ParseNumber(text, 1)
    IN  IF text = <<>> \/ r.value = SyntaxError THEN JsInt(0) ELSE r.value

\* { ...prev, [group]: { ...prev[group], [key]: value } }
GroupSet(settings, group, key, value) ==
    ObjSet(settings, group, ObjSet(settings.of[group], key, value))

handleTargetChange(year, value) ==
    /\ page = "policy-settings"
    /\ ~policySettings.loading   \* the page shows Loading... until then
    /\ policySettings' =
          [policySettings EXCEPT
              !.settings = GroupSet(@, "targets", year, ParseFloatOrZero(value)),
              !.hasChanges = TRUE]
    /\ UNCHANGED <<page, dataset, net, dekomposisi, proyeksi, pemodelan,
                   report, scenario, insight, engine, storageVars,
                   uiCustomization, variableManager>>

handleParameterChange(key, value) ==
    /\ page = "policy-settings"
    /\ ~policySettings.loading   \* the page shows Loading... until then
    /\ policySettings' =
          [policySettings EXCEPT
              !.settings = GroupSet(@, "parameters", key,
                                    ParseFloatOrZero(value)),
              !.hasChanges = TRUE]
    /\ UNCHANGED <<page, dataset, net, dekomposisi, proyeksi, pemodelan,
                   report, scenario, insight, engine, storageVars,
                   uiCustomization, variableManager>>

handlePolicyToggle(key) ==
    /\ page = "policy-settings"
    /\ ~policySettings.loading   \* the page shows Loading... until then
    /\ policySettings' =
          [policySettings EXCEPT
              !.settings =
                  GroupSet(@, "policies", key,
                           JsBoolean(~policySettings.settings.of["policies"].of[key].b)),
              !.hasChanges = TRUE]
    /\ UNCHANGED <<page, dataset, net, dekomposisi, proyeksi, pemodelan,
                   report, scenario, insight, engine, storageVars,
                   uiCustomization, variableManager>>

handleResetSettings ==
    /\ page = "policy-settings"
    /\ ~policySettings.loading   \* the page shows Loading... until then
    /\ policySettings' = [policySettings EXCEPT
                             !.settings = POLICY_DEFAULT_SETTINGS,
                             !.hasChanges = TRUE]
    /\ UNCHANGED <<page, dataset, net, dekomposisi, proyeksi, pemodelan,
                   report, scenario, insight, engine, storageVars,
                   uiCustomization, variableManager>>

handleSaveSettings ==
    /\ page = "policy-settings"
    /\ ~policySettings.loading   \* the page shows Loading... until then
    /\ policySettings.hasChanges                \* the Save button is disabled otherwise
    /\ policySettings.timers < MaxTimers
    /\ \E stored \in BOOLEAN :
          /\ localStorage' =
                IF stored
                THEN setItem("policy_settings",
                             stringify(policySettings.settings))
                ELSE localStorage
          /\ policySettings' = Saved(policySettings, stored)
    /\ UNCHANGED <<page, dataset, net, dekomposisi, proyeksi, pemodelan,
                   report, scenario, insight, engine, call,
                   uiCustomization, variableManager>>

PolicySaveStatusTimeout ==
    /\ page = "policy-settings"
    /\ policySettings.timers > 0
    /\ policySettings' = SaveStatusCleared(policySettings)
    /\ UNCHANGED <<page, dataset, net, dekomposisi, proyeksi, pemodelan,
                   report, scenario, insight, engine, storageVars,
                   uiCustomization, variableManager>>

(***************************************************************************)
(* VariableManagerPage: the list of model variables kept under             *)
(* 'model_variables'.                                                      *)
(***************************************************************************)
Variable(id, name, label, type, unit, importance) ==
    JsObject(<< <<"id", JsInt(id)>>, <<"name", JsString(name)>>,
                <<"label", JsString(label)>>, <<"type", JsString(type)>>,
                <<"unit", JsString(unit)>>, <<"enabled", JsBoolean(TRUE)>> >>
             \o (IF importance = "" THEN <<>>
                 ELSE << <<"importance", JsString(importance)>> >>)
             \o << <<"editable", JsBoolean(type # "response")>> >>)

DEFAULT_VARIABLES ==
    JsArray(<<
      Variable(1, "PAD", "Pendapatan Asli Daerah", "response", "Miliar Rp", ""),
      Variable(2, "PDRB", "Produk Domestik Regional Bruto", "predictor",
               "Triliun Rp", "high"),
      Variable(3, "Rasio Gini", "Rasio Gini (Ketimpangan)", "predictor",
               "Index", "medium"),
      Variable(4, "Inflasi", "Tingkat Inflasi", "predictor", "%", "medium"),
      Variable(5, "PKB", "Pajak Kendaraan Bermotor", "predictor", "Miliar Rp",
               "high"),
      Variable(6, "BBNKB", "Bea Balik Nama Kendaraan Bermotor", "predictor",
               "Miliar Rp", "high"),
      Variable(7, "Pertumbuhan Ekonomi", "Pertumbuhan Ekonomi", "predictor",
               "%", "high") >>)

\* rows the table is let grow to
MaxVariables == 7

\* useState of newVariable, and what handleAddVariable resets it to
NEW_VARIABLE ==
    JsObject(<< <<"name", JsString("")>>, <<"label", JsString("")>>,
                <<"type", JsString("predictor")>>, <<"unit", JsString("")>>,
                <<"enabled", JsBoolean(TRUE)>>,
                <<"importance", JsString("medium")>> >>)

VariableManagerInit ==
    [variables |-> DEFAULT_VARIABLES, editingId |-> JsNull,
     editForm |-> JsObject(<<>>), showAddForm |-> FALSE,
     newVariable |-> NEW_VARIABLE, hasChanges |-> FALSE,
     saveStatus |-> "null", timers |-> 0]

\* useEffect on mount: loadVariables()
VariableManagerMounted ==
    LET saved == getItem("model_variables")
    IN  [VariableManagerInit EXCEPT
            !.variables = IF saved # <<>> THEN parse(saved) ELSE @]

\* the rows of the table: the list held, when it is a list
VariableRows ==
    IF variableManager.variables.t = "array"
    THEN variableManager.variables.items ELSE <<>>

\* obj.key, undefined when the object has no such property
JsProp(obj, key) ==
    IF obj.t = "object" /\ key \in DOMAIN obj.of THEN obj.of[key]
    ELSE JsUndefined

\* a row is drawn with its inputs when editingId === variable.id, and with
\* its values and actions otherwise
RowInEditMode(variable) == variableManager.editingId = JsProp(variable, "id")

\* the edit and delete buttons are drawn for a row only when
\* variable.editable is truthy
RowHasEditActions(variable) ==
    /\ ~RowInEditMode(variable)
    /\ JsProp(variable, "editable") = JsBoolean(TRUE)

\* prev.map(v => v.id === id ? { ...v, enabled: !v.enabled } : v), from the
\* checkbox of a row that is not being edited
handleToggleEnabled(id) ==
    /\ page = "variable-manager"
    /\ \E i \in DOMAIN VariableRows :
          /\ VariableRows[i].of["id"] = JsInt(id)
          /\ ~RowInEditMode(VariableRows[i])
    /\ variableManager' =
          [variableManager EXCEPT
              !.variables =
                  JsArray([i \in DOMAIN @.items |->
                             IF @.items[i].of["id"] = JsInt(id)
                             THEN ObjSet(@.items[i], "enabled",
                                         JsBoolean(~@.items[i].of["enabled"].b))
                             ELSE @.items[i]]),
              !.hasChanges = TRUE]
    /\ UNCHANGED <<page, dataset, net, dekomposisi, proyeksi, pemodelan,
                   report, scenario, insight, engine, storageVars,
                   uiCustomization, policySettings>>

handleStartEdit(id) ==
    /\ page = "variable-manager"
    /\ \E i \in DOMAIN VariableRows :
          /\ VariableRows[i].of["id"] = JsInt(id)
          /\ RowHasEditActions(VariableRows[i])
          /\ variableManager' =
                [variableManager EXCEPT !.editingId = JsInt(id),
                                        !.editForm = VariableRows[i]]
    /\ UNCHANGED <<page, dataset, net, dekomposisi, proyeksi, pemodelan,
                   report, scenario, insight, engine, storageVars,
                   uiCustomization, policySettings>>

\* setEditForm(prev => ({ ...prev, [key]: value })) from the inputs of the
\* row being edited: name, label, type, unit, importance, enabled
setEditForm(key, value) ==
    /\ page = "variable-manager"
    /\ \E i \in DOMAIN VariableRows : RowInEditMode(VariableRows[i])
    /\ key \in {"name", "label", "type", "unit", "importance", "enabled"}
    /\ variableManager' =
          [variableManager EXCEPT !.editForm = ObjSet(@, key, value)]
    /\ UNCHANGED <<page, dataset, net, dekomposisi, proyeksi, pemodelan,
                   report, scenario, insight, engine, storageVars,
                   uiCustomization, policySettings>>

\* prev.map(v => v.id === editingId ? editForm : v)
handleSaveEdit ==
    /\ page = "variable-manager"
    /\ \E i \in DOMAIN VariableRows : RowInEditMode(VariableRows[i])
    /\ variableManager' =
          [variableManager EXCEPT
              !.variables =
                  JsArray([i \in DOMAIN @.items |->
                             IF JsProp(@.items[i], "id") = variableManager.editingId
                             THEN variableManager.editForm
                             ELSE @.items[i]]),
              !.editingId = JsNull,
              !.editForm = JsObject(<<>>),
              !.hasChanges = TRUE]
    /\ UNCHANGED <<page, dataset, net, dekomposisi, proyeksi, pemodelan,
                   report, scenario, insight, engine, storageVars,
                   uiCustomization, policySettings>>

handleCancelEdit ==
    /\ page = "variable-manager"
    /\ \E i \in DOMAIN VariableRows : RowInEditMode(VariableRows[i])
    /\ variableManager' =
          [variableManager EXCEPT !.editingId = JsNull,
                                  !.editForm = JsObject(<<>>)]
    /\ UNCHANGED <<page, dataset, net, dekomposisi, proyeksi, pemodelan,
                   report, scenario, insight, engine, storageVars,
                   uiCustomization, policySettings>>

\* confirm(...) answers yes or no; prev.filter(v => v.id !== id) on yes
handleDelete(id) ==
    /\ page = "variable-manager"
    /\ \E i \in DOMAIN VariableRows :
          /\ VariableRows[i].of["id"] = JsInt(id)
          /\ RowHasEditActions(VariableRows[i])
    /\ \E confirmed \in BOOLEAN :
          variableManager' =
             IF confirmed
             THEN [variableManager EXCEPT
                     !.variables =
                         JsArray(SelectSeq(@.items,
                                           LAMBDA v : v.of["id"] # JsInt(id))),
                     !.hasChanges = TRUE]
             ELSE variableManager
    /\ UNCHANGED <<page, dataset, net, dekomposisi, proyeksi, pemodelan,
                   report, scenario, insight, engine, storageVars,
                   uiCustomization, policySettings>>

\* the Add Variable button: setShowAddForm(!showAddForm); Cancel in the form:
\* setShowAddForm(false)
toggleShowAddForm ==
    /\ page = "variable-manager"
    /\ variableManager' = [variableManager EXCEPT !.showAddForm = ~@]
    /\ UNCHANGED <<page, dataset, net, dekomposisi, proyeksi, pemodelan,
                   report, scenario, insight, engine, storageVars,
                   uiCustomization, policySettings>>

\* setNewVariable(prev => ({ ...prev, [key]: value })) from the add form
setNewVariable(key, value) ==
    /\ page = "variable-manager"
    /\ variableManager.showAddForm
    /\ key \in {"name", "label", "type", "unit", "importance"}
    /\ variableManager' =
          [variableManager EXCEPT !.newVariable = ObjSet(@, key, value)]
    /\ UNCHANGED <<page, dataset, net, dekomposisi, proyeksi, pemodelan,
                   report, scenario, insight, engine, storageVars,
                   uiCustomization, policySettings>>

\* the number of rows taken for the largest id
MaxIdFromLength(items) == Len(items)

\* Math.max(...variables.map(v => v.id), 0) over whole-number ids
MaxId(items) ==
    LET ids == {items[i].of["id"].v \div 10 : i \in DOMAIN items} \cup {0}
    IN  CHOOSE m \in ids : \A n \in ids : n <= m

handleAddVariable ==
    /\ page = "variable-manager"
    /\ variableManager.showAddForm
    /\ Len(VariableRows) < MaxVariables
    /\ LET newId == MaxId(VariableRows) + 1
       IN  variableManager' =
              [variableManager EXCEPT
                  !.variables =
                      JsArray(Append(@.items,
                                     ObjSet(ObjSet(variableManager.newVariable,
                                                   "id", JsInt(newId)),
                                            "editable", JsBoolean(TRUE)))),
                  !.newVariable = NEW_VARIABLE,
                  !.showAddForm = FALSE,
                  !.hasChanges = TRUE]
    /\ UNCHANGED <<page, dataset, net, dekomposisi, proyeksi, pemodelan,
                   report, scenario, insight, engine, storageVars,
                   uiCustomization, policySettings>>

\* reader.onload of the chosen file: JSON.parse of its text replaces the
\* list; a text that does not parse leaves the page as it was (alert)
handleImport(text) ==
    /\ page = "variable-manager"
    /\ LET imported == parse(text)
       IN  variableManager' =
              IF imported = SyntaxError THEN variableManager
              ELSE [variableManager EXCEPT !.variables = imported,
                                           !.hasChanges = TRUE]
    /\ UNCHANGED <<page, dataset, net, dekomposisi, proyeksi, pemodelan,
                   report, scenario, insight, engine, storageVars,
                   uiCustomization, policySettings>>

VariableHandleSave ==
    /\ page = "variable-manager"
    /\ variableManager.hasChanges                \* the Save button is disabled otherwise
    /\ variableManager.timers < MaxTimers
    /\ \E stored \in BOOLEAN :
          /\ localStorage' =
                IF stored
                THEN setItem("model_variables",
                             stringify(variableManager.variables))
                ELSE localStorage
          /\ variableManager' = Saved(variableManager, stored)
    /\ UNCHANGED <<page, dataset, net, dekomposisi, proyeksi, pemodelan,
                   report, scenario, insight, engine, call,
                   uiCustomization, policySettings>>

VariableSaveStatusTimeout ==
    /\ page = "variable-manager"
    /\ variableManager.timers > 0
    /\ variableManager' = SaveStatusCleared(variableManager)
    /\ UNCHANGED <<page, dataset, net, dekomposisi, proyeksi, pemodelan,
                   report, scenario, insight, engine, storageVars,
                   uiCustomization, policySettings>>

\* every Init: nothing stored yet, settings pages unmounted
SettingsInit ==
    /\ localStorage = EmptyStorage
    /\ uiCustomization = UICustomizationInit
    /\ policySettings = PolicySettingsInit
    /\ variableManager = VariableManagerInit

(***************************************************************************)
(* App.jsx: the router mounts one page at a time.  Mounting constructs the *)
(* page's state and runs its mount effects; the state of the page left is  *)
(* discarded together with the continuations of its requests.              *)
(***************************************************************************)
Navigate(p) ==
    /\ p # page
    /\ page' = p
    /\ dekomposisi' = IF p = "dekomposisi" THEN DekomposisiMounted
                      ELSE DekomposisiInit
    /\ proyeksi' = IF p = "proyeksi" THEN ProyeksiMounted ELSE ProyeksiInit
    /\ pemodelan' = PemodelanInit
    /\ report' = IF p = "report" THEN ReportMounted ELSE ReportInit
    /\ scenario' = IF p = "scenario" THEN ScenarioMounted ELSE ScenarioInit
    /\ insight' = IF p = "insight" THEN InsightMounted ELSE InsightInit
    /\ uiCustomization' = IF p = "ui-customization" THEN UICustomizationMounted
                          ELSE UICustomizationInit
    /\ policySettings' = IF p = "policy-settings" THEN PolicySettingsMounted
                         ELSE PolicySettingsInit
    /\ variableManager' = IF p = "variable-manager" THEN VariableManagerMounted
                          ELSE VariableManagerInit
    /\ net' = CASE p = "dekomposisi" -> DekomposisiMountRequests
                [] p = "proyeksi" -> ProyeksiMountRequests
                [] p = "report" -> ReportMountRequests
                [] p = "scenario" -> ScenarioMountRequests
                [] p = "insight" -> InsightMountRequests
                [] p = "policy-settings" -> PolicySettingsMountRequests
                [] OTHER -> {}
    /\ UNCHANGED <<dataset, engine, storageVars>>

(***************************************************************************)
(* DekomposisiPage alone, over every generated dataset.                    *)
(***************************************************************************)
InitDekomposisi ==
    /\ page = "home"
    /\ dataset \in Datasets
    /\ net = {}
    /\ dekomposisi = DekomposisiInit
    /\ proyeksi = ProyeksiInit
    /\ pemodelan = PemodelanInit
    /\ report = ReportInit
    /\ scenario = ScenarioInit
    /\ insight = InsightInit
    /\ SettingsInit
    /\ call = Null
    /\ engine = Null

NextDekomposisi ==
    \/ \E p \in {"home", "dekomposisi"} : Navigate(p)
    \/ DekomposisiLoadDataSettle
    \/ \E y \in YEAR_OPTIONS : DekomposisiSelectYear(y)

SpecDekomposisi == InitDekomposisi /\ [][NextDekomposisi]_vars

\* the page shows the rows it loaded
DekomposisiLoaded ==
    /\ page = "dekomposisi"
    /\ ~dekomposisi.loading
    /\ dekomposisi.historicalData # <<>>

HasYear(rows, year) == \E i \in DOMAIN rows : rows[i]["Tahun"] = year

\* C1: whenever the selected year's record and the previous year's record
\* are both loaded, the waterfall shows base + PKB change + BBNKB change +
\* other = total exactly, with base the previous year's PAD and total the
\* selected year's PAD.
C1_WaterfallReconciles ==
    (/\ DekomposisiLoaded
     /\ HasYear(dekomposisi.historicalData, dekomposisi.selectedYear)
     /\ HasYear(dekomposisi.historicalData, dekomposisi.selectedYear - 1))
    => LET w == DekomposisiRender.waterfall
           cur == FindYear(dekomposisi.historicalData, dekomposisi.selectedYear)
           prev == FindYear(dekomposisi.historicalData,
                            dekomposisi.selectedYear - 1)
       IN  /\ Len(w) = 5
           /\ w[1] = prev["PAD"]
           /\ w[5] = cur["PAD"]
           /\ w[1] + w[2] + w[3] + w[4] = w[5]

C1_Witness ==
    /\ DekomposisiLoaded
    /\ Len(DekomposisiRender.waterfall) = 5
    /\ DekomposisiRender.waterfall[2] # 0
    /\ DekomposisiRender.waterfall[3] # 0
    /\ DekomposisiRender.waterfall[4] < 0

\* C2: each named delta is the component's current value minus its value
\* of the previous year, other is the change of PAD minus the named deltas,
\* and previous {1000, 600, 300}, current {1150, 680, 330} gives
\* base 1000, +80, +30, other 40, total 1150.
C2_DeltasAndOther ==
    (DekomposisiLoaded /\ DekomposisiRender.decomposition # Null)
    => LET w == DekomposisiRender.waterfall
           cur == FindYear(dekomposisi.historicalData, dekomposisi.selectedYear)
           prev == FindYear(dekomposisi.historicalData,
                            dekomposisi.selectedYear - 1)
       IN  /\ w[2] = cur["PKB"] - prev["PKB"]
           /\ w[3] = cur["BBNKB"] - prev["BBNKB"]
           /\ w[4] = (cur["PAD"] - prev["PAD"]) - (w[2] + w[3])
           /\ (/\ prev["PAD"] = 1000 /\ prev["PKB"] = 600 /\ prev["BBNKB"] = 300
               /\ cur["PAD"] = 1150 /\ cur["PKB"] = 680 /\ cur["BBNKB"] = 330)
              => w = <<1000, 80, 30, 40, 1150>>

C2_Witness ==
    /\ DekomposisiLoaded
    /\ DekomposisiRender.waterfall = <<1000, 80, 30, 40, 1150>>

\* C3: when the record of the previous year is absent, the decomposition
\* fails with MissingPriorYearError: the page shows that error and no
\* decomposition values.
C3_MissingPriorYearErrorSurfaced ==
    (/\ DekomposisiLoaded
     /\ ~HasYear(dekomposisi.historicalData, dekomposisi.selectedYear - 1))
    => /\ DekomposisiRender.decomposition = Null
       /\ "MissingPriorYearError" \in DekomposisiRender.errors

(***************************************************************************)
(* The forecasting engine alone: the inputs of one generateProjection call *)
(* are drawn in the initial state and the call is applied to them.         *)
(***************************************************************************)
HorizonInputs == {0, 1, 2, 3, 5, 10, 11}

ModelTypeInputs == MODEL_TYPES \cup {"prophet"}

ProjectionRequests ==
    { [response_var |-> "PAD", forecast_years |-> n, model_type |-> mt,
       include_confidence_intervals |-> ci] :
      n \in HorizonInputs, mt \in ModelTypeInputs, ci \in BOOLEAN }

InitEngine ==
    /\ page = "home"
    /\ dataset \in TrendDatasets
    /\ net = {}
    /\ dekomposisi = DekomposisiInit
    /\ proyeksi = ProyeksiInit
    /\ pemodelan = PemodelanInit
    /\ report = ReportInit
    /\ scenario = ScenarioInit
    /\ insight = InsightInit
    /\ SettingsInit
    /\ call = Null
    /\ engine \in { [request |-> req, failed |-> failed, rmse |-> rmse,
                     response |-> Null] :
                    req \in ProjectionRequests,
                    failed \in SUBSET Range(MODELS),
                    rmse \in [Range(MODELS) -> 0..MaxRMSE] }

EngineGenerateProjection ==
    /\ engine.response = Null
    /\ engine' = [engine EXCEPT
                    !.response = GenerateProjection(engine.request, dataset,
                                                    engine.failed, engine.rmse)]
    /\ UNCHANGED <<page, dataset, net, dekomposisi, proyeksi, pemodelan,
                   report, scenario, insight,
                   storageVars, settingsPages>>

NextEngine == EngineGenerateProjection

SpecEngine == InitEngine /\ [][NextEngine]_vars

EngineAnswered == engine.response # Null

EngineEnsembleOk ==
    /\ EngineAnswered
    /\ engine.response.ok
    /\ engine.response.data.model_type = "ensemble"

ValidRequest(req) ==
    /\ req.forecast_years \in MIN_FORECAST_YEARS..MAX_FORECAST_YEARS
    /\ req.model_type \in MODEL_TYPES

\* C6: in every successful ensemble fit the weights are those of the models
\* that fitted, each is non-negative, and they sum to 1.
C6_WeightsSumToOne ==
    EngineEnsembleOk
    => LET w == engine.response.data.forecast.weights
           fitted == Range(MODELS) \ engine.failed
       IN  /\ DOMAIN w = fitted
           /\ \A m \in fitted : w[m].num >= 0 /\ w[m].den > 0
           /\ \A m, k \in fitted : w[m].den = w[k].den
           /\ \A m \in fitted :
                 SumOver(fitted, [k \in fitted |-> w[k].num]) = w[m].den

C6_Witness ==
    /\ EngineEnsembleOk
    /\ engine.failed = {"arima"}
    /\ engine.rmse["ols"] = 1
    /\ engine.rmse["exp_smoothing"] = 2
    /\ engine.response.data.forecast.weights["ols"] = [num |-> 2, den |-> 3]

\* C7: an ensemble request in which some but not all fits fail returns the
\* combined result of the remaining models, with renormalized weights and
\* the failed models as a warning; it fails with AllModelsFailedError
\* exactly when every fit fails.
C7_EnsembleDegradation ==
    (EngineAnswered /\ ValidRequest(engine.request)
        /\ engine.request.model_type = "ensemble")
    => LET fitted == Range(MODELS) \ engine.failed
           r == engine.response
       IN  /\ (fitted # {})
              => /\ r.ok
                 /\ DOMAIN r.data.forecast.weights = fitted
                 /\ SumOver(fitted, [k \in fitted |-> r.data.forecast.weights[k].num])
                      = r.data.forecast.weights[CHOOSE m \in fitted : TRUE].den
                 /\ r.data.warnings = engine.failed
                 /\ Len(r.data.forecast.predictions) = engine.request.forecast_years
           /\ (~r.ok /\ r.data.error_kind = "AllModelsFailedError") <=> (fitted = {})

C7_Witness ==
    /\ EngineEnsembleOk
    /\ engine.failed = {"ols", "arima"}
    /\ engine.response.data.warnings = {"ols", "arima"}
    /\ engine.response.data.forecast.weights["exp_smoothing"].num
         = engine.response.data.forecast.weights["exp_smoothing"].den

\* C10: in every forecast result years, predictions and the bounds (when
\* present) have the same length, the bounds come together, and
\* lower <= point <= upper at every index; so every index at which the
\* forecast table reads predictions, lower_ci and upper_ci is in range.
C10_ForecastShape ==
    (EngineAnswered /\ engine.response.ok)
    => LET f == engine.response.data.forecast
       IN  /\ Len(f.predictions) = Len(f.years)
           /\ ("lower_ci" \in DOMAIN f) <=> ("upper_ci" \in DOMAIN f)
           /\ ("lower_ci" \in DOMAIN f)
              => /\ Len(f.lower_ci) = Len(f.years)
                 /\ Len(f.upper_ci) = Len(f.years)
                 /\ \A i \in DOMAIN f.years :
                       f.lower_ci[i] <= f.predictions[i]
                       /\ f.predictions[i] <= f.upper_ci[i]
           /\ \A read \in ForecastTableReads(engine.response.data) :
                 InRange(f, read)
           /\ LET chart == prepareChartData(engine.response.data)
              IN  \A k \in DOMAIN chart.datasets :
                     Len(chart.datasets[k]) = Len(chart.labels)

C10_Witness ==
    /\ EngineAnswered
    /\ engine.response.ok
    /\ "upper_ci" \in DOMAIN engine.response.data.forecast
    /\ Len(engine.response.data.forecast.years) = 10
    /\ engine.response.data.forecast.lower_ci[10]
         < engine.response.data.forecast.predictions[10]

(***************************************************************************)
(* The application: every page against a dataset, one page mounted at a    *)
(* time.  The year selector of ExecutiveReportPage is not an action here:  *)
(* it is rendered only with reportData, and that render throws (see        *)
(* ReportRender).                                                          *)
(***************************************************************************)
PAGES ==
    {"home", "dekomposisi", "proyeksi", "pemodelan", "report", "scenario",
     "insight"}

Init ==
    /\ page = "home"
    /\ dataset \in TrendDatasets
    /\ net = {}
    /\ dekomposisi = DekomposisiInit
    /\ proyeksi = ProyeksiInit
    /\ pemodelan = PemodelanInit
    /\ report = ReportInit
    /\ scenario = ScenarioInit
    /\ insight = InsightInit
    /\ SettingsInit
    /\ call = Null
    /\ engine = Null

Next ==
    \/ \E p \in PAGES : Navigate(p)
    \/ DekomposisiLoadDataSettle
    \/ \E year \in {2024} : DekomposisiSelectYear(year)
    \/ ProyeksiLoadHistoricalDataSettle
    \/ \E m \in {"ols"} : ProyeksiSetModelType(m)
    \/ \E v \in {"PKB"} : ProyeksiSetResponseVar(v)
    \/ \E n \in {3} : ProyeksiSetForecastYears(n)
    \/ handleGenerateProjection
    \/ ProyeksiGenerateSettle
    \/ \E m \in {"arima", "ensemble"} : PemodelanSetModel(m)
    \/ \E v \in {"BBNKB"} : PemodelanSetResponse(v)
    \/ \E k \in {"PDRB", "IPM", "Gini"} : PemodelanTogglePredictor(k)
    \/ runModel
    \/ PemodelanModelSettle
    \/ PemodelanSensitivitySettle
    \/ InsightLoadDataSettle
    \/ ReportGenerateSettle
    \/ ScenarioLoadHistoricalDataSettle
    \/ \E value \in {0 - 30, 30} : handleAdjustmentChange("PDRB", value)
    \/ resetAdjustments
    \/ \E presetKey \in {"baseline", "pessimistic"} : loadPreset(presetKey)
    \/ runScenario
    \/ ScenarioCustomSettle
    \/ ScenarioStandardSettle

Spec == Init /\ [][Next]_vars

FitFailed(err) ==
    /\ err # Null
    /\ err.hasResponse
    /\ err.data.error_kind = "FitError"

\* C4: a single-model request whose fit fails is rejected by the API layer
\* with the original error, and the page that issued it (ProyeksiPage,
\* PemodelanPage, ExecutiveReportPage) then shows the failure to the user.
C4_SingleModelFailureShown ==
    /\ \A settled \in {ErrorResponse("FitError"), NetworkError} :
          ResponseInterceptor(settled) = [fulfilled |-> FALSE, value |-> settled]
    /\ (page = "proyeksi" /\ proyeksi.pc = "caught" /\ FitFailed(proyeksi.err))
          => ProyeksiRender.errorBanner
    /\ (page = "pemodelan" /\ pemodelan.pc = "caught"
            /\ FitFailed(pemodelan.err))
          => PemodelanRender.alert
    /\ (page = "report" /\ report.pc = "caught" /\ FitFailed(report.err))
          => ReportRender.errors # {}

\* the stored result of each page that has a multi-request operation
StoredResult ==
    [scenario |-> scenario.scenarios,
     report |-> report.reportData,
     insight |-> [historicalData |-> insight.historicalData,
                  projection |-> insight.projection]]

OperationPc ==
    [scenario |-> scenario.pc, report |-> report.pc, insight |-> insight.pc]

MULTI_REQUEST_PAGES == {"scenario", "report", "insight"}

\* C5: while a page stays mounted, the stored result of its multi-request
\* operation (runScenario, generateReport, loadData) changes only in the
\* step in which the operation completes with every response; every other
\* step, a failing request's included, leaves it exactly as it was.
C5_NoPartialResult ==
    [][\A p \in MULTI_REQUEST_PAGES :
          (page = p /\ page' = p /\ StoredResult[p]' # StoredResult[p])
          => /\ OperationPc[p] # "done"
             /\ OperationPc[p]' = "done"]_vars

\* generateReport has failed at its third or fourth request, after the
\* earlier ones had succeeded
C5_Witness ==
    /\ page = "report"
    /\ report.pc = "caught"
    /\ FitFailed(report.err)
    /\ report.reportData = Null

\* C8: a forecast of N years carries the years last historical year + 1
\* .. + N, and the years the client attaches to it agree: the year axis of
\* ScenarioBuilderPage's time-series chart and ExecutiveReportPage's
\* year-to-index mapping.
C8_ClientYearsAgree ==
    LET expected(n) == [i \in 1..n |-> LastRow(dataset).Tahun + i]
    IN  /\ (page = "proyeksi" /\ proyeksi.projectionResult # Null)
            => proyeksi.projectionResult.forecast.years
                  = expected(Len(proyeksi.projectionResult.forecast.predictions))
        /\ (page = "scenario" /\ DOMAIN scenario.scenarios # {})
            => prepareTimeSeriesChart(scenario.scenarios).labels
                  = expected(SCENARIO_FORECAST_YEARS)
        /\ (page = "report" /\ report.reportData # Null)
            => \A year \in REPORT_YEAR_OPTIONS :
                  report.reportData.projections.ensemble.forecast.years
                     [ProjectionYearIndex(year) + 1] = year

(***************************************************************************)
(* ProyeksiPage alone, with every option of its selects.                   *)
(***************************************************************************)
InitProyeksi ==
    /\ page = "home"
    /\ dataset \in TrendDatasets
    /\ net = {}
    /\ dekomposisi = DekomposisiInit
    /\ proyeksi = ProyeksiInit
    /\ pemodelan = PemodelanInit
    /\ report = ReportInit
    /\ scenario = ScenarioInit
    /\ insight = InsightInit
    /\ SettingsInit
    /\ call = Null
    /\ engine = Null

NextProyeksi ==
    \/ \E p \in {"home", "proyeksi"} : Navigate(p)
    \/ ProyeksiLoadHistoricalDataSettle
    \/ \E m \in MODEL_OPTIONS : ProyeksiSetModelType(m)
    \/ \E v \in {"PAD"} : ProyeksiSetResponseVar(v)
    \/ \E n \in FORECAST_YEARS_OPTIONS : ProyeksiSetForecastYears(n)
    \/ handleGenerateProjection
    \/ ProyeksiGenerateSettle

SpecProyeksi == InitProyeksi /\ [][NextProyeksi]_vars

\* C9: every generateProjection request ProyeksiPage sends has
\* forecast_years within 1..10 and a model_type among ols, arima,
\* exp_smoothing and ensemble.
C9_RequestsInRange ==
    \A r \in net :
        r.api = "generateProjection"
        => /\ r.params.forecast_years \in MIN_FORECAST_YEARS..MAX_FORECAST_YEARS
           /\ r.params.model_type \in MODEL_TYPES

C9_Witness ==
    \E r \in net :
        /\ r.api = "generateProjection"
        /\ r.params.forecast_years = 10
        /\ r.params.model_type = "exp_smoothing"
        /\ proyeksi.projectionResult # Null

(***************************************************************************)
(* ScenarioBuilderPage: adjustments and runs.                              *)
(***************************************************************************)
\* C11: a runScenario invoked with the empty adjustments map sends only the
\* default-presets request (no custom one, no scenario_adjustments), and
\* when that run succeeds scenarios holds no custom entry, whatever an
\* earlier run had stored.
C11_EmptyMeansBaseline ==
    [][(page = "scenario" /\ page' = "scenario")
       => /\ (~scenario.loading /\ scenario'.loading
                 /\ DOMAIN scenario.adjustments = {})
             => /\ scenario'.pc = "await_standard"
                /\ \A r \in net' : r.op # "scenario.custom"
                /\ \E r \in net' \ net :
                      /\ r.op = "scenario.standard"
                      /\ "scenario_adjustments" \notin DOMAIN r.params
          /\ (scenario.loading /\ scenario'.pc = "done"
                 /\ DOMAIN scenario.run.adjustments = {})
             => /\ "custom" \notin DOMAIN scenario'.scenarios
                /\ DOMAIN scenario'.scenarios
                      = DOMAIN DefaultScenarioAdjustments]_vars

\* a run invoked with empty adjustments is in flight while scenarios still
\* holds the custom entry of an earlier run
C11_Witness ==
    /\ page = "scenario"
    /\ scenario.pc = "await_standard"
    /\ DOMAIN scenario.run.adjustments = {}
    /\ "custom" \in DOMAIN scenario.scenarios

\* ScenarioBuilderPage alone, against the dataset that ends in 2024: the
\* slider of Suku Bunga at its ends, every preset, reset and runs
InitScenario == Init /\ LastRow(dataset)["Tahun"] = 2024

NextScenario ==
    \/ \E p \in {"home", "scenario"} : Navigate(p)
    \/ ScenarioLoadHistoricalDataSettle
    \/ \E i \in {7} :
          \E value \in SliderExtremes(SCENARIO_PREDICTOR_VARS[i]) :
             handleAdjustmentChange(SCENARIO_PREDICTOR_VARS[i].key, value)
    \/ resetAdjustments
    \/ \E presetKey \in DOMAIN PRESET_SCENARIOS : loadPreset(presetKey)
    \/ runScenario
    \/ ScenarioCustomSettle
    \/ ScenarioStandardSettle

SpecScenario == InitScenario /\ [][NextScenario]_vars

\* C12: every adjustment percentage held in adjustments, and every one sent
\* in a scenario request, is of a configured predictor and lies within that
\* predictor's [min, max].
C12_AdjustmentsWithinBounds ==
    LET var(k) == CHOOSE v \in Range(SCENARIO_PREDICTOR_VARS) : v.key = k
        within(a) ==
            /\ DOMAIN a \subseteq PREDICTOR_KEYS
            /\ \A k \in DOMAIN a : var(k).min <= a[k] /\ a[k] <= var(k).max
        sent(a) ==
            /\ DOMAIN a \subseteq PREDICTOR_KEYS
            /\ \A k \in DOMAIN a :
                  /\ a[k].den > 0
                  /\ var(k).min * a[k].den <= a[k].num
                  /\ a[k].num <= var(k).max * a[k].den
    IN  /\ \A v \in Range(SCENARIO_PREDICTOR_VARS) :
              \A x \in SliderValues(v) : v.min <= x /\ x <= v.max
        /\ page = "scenario"
           => /\ within(scenario.adjustments)
              /\ \A r \in net :
                    r.op = "scenario.custom"
                    => sent(r.params.scenario_adjustments["custom"])

\* a custom request is in flight with a preset's values and a slider at
\* its end
C12_Witness ==
    /\ page = "scenario"
    /\ \E r \in net :
          /\ r.op = "scenario.custom"
          /\ DOMAIN r.params.scenario_adjustments["custom"] = PREDICTOR_KEYS
          /\ r.params.scenario_adjustments["custom"]["PDRB"] = Ratio(15, 100)
          /\ r.params.scenario_adjustments["custom"]["Suku Bunga"]
                = Ratio(0 - 100, 100)
          /\ r.params.scenario_adjustments["custom"]["IPM"] = Ratio(10, 100)

\* C13: the custom adjustment map runScenario sends has exactly the keys
\* of adjustments, and a predictor whose slider is at p percent has its
\* base trajectory scaled by (1 + p/100).
C13_SliderScalesTrajectory ==
    page = "scenario"
    => \A r \in net :
          r.op = "scenario.custom"
          => LET sent == r.params.scenario_adjustments["custom"]
                 chosen == scenario.run.adjustments
                 base == r.params.base_forecast_data
             IN  /\ DOMAIN sent = DOMAIN chosen
                 /\ \A k \in DOMAIN chosen :
                       \A i \in 1..r.params.forecast_years :
                          AdjustedTrajectory(base[k], sent[k])[i]
                             = (base[k][i] * (100 + chosen[k])) \div 100

(***************************************************************************)
(* PemodelanPage: predictors, results and the tornado chart.               *)
(***************************************************************************)
\* C14: no request of PemodelanPage that fits an OLS model (selected model
\* ols or ensemble), and no sensitivity request, carries an empty list of
\* predictors.
C14_OlsFitHasPredictor ==
    \A r \in net :
        (\/ r.op = "pemodelan.sensitivity"
         \/ r.op = "pemodelan.model" /\ r.params.model_type \in {"ols", "ensemble"})
        => Len(r.params.predictor_vars) >= 1

(***************************************************************************)
(* Helper functions applied to drawn arguments: TornadoChart's row         *)
(* transform and utils' deepClone.                                         *)
(***************************************************************************)
\* TornadoChart: tornadoData = data.map(item => ({...item,
\*   [positiveKey]: Math.abs(item[positiveKey]),
\*   [negativeKey]: -Math.abs(item[negativeKey]) }))
tornadoData(data) ==
    [i \in DOMAIN data |->
       [data[i] EXCEPT !.impact_positive = AbsInt(@),
                       !.impact_negative = 0 - AbsInt(@)]]

TORNADO_VARIABLES == <<"PDRB", "IPM", "Gini">>

ImpactValues == {0 - 3, 1, 2}

\* sensitivity lists handed to the chart: any impacts in any order
TornadoInputs ==
    UNION { { [i \in 1..n |-> [variable |-> TORNADO_VARIABLES[i],
                               impact_positive |-> ps[i],
                               impact_negative |-> 0 - ns[i]]] :
                ps \in [1..n -> ImpactValues], ns \in [1..n -> ImpactValues] } :
            n \in 0..MaxRows }

\* ScenarioBuilderPage: prepareComparisonChart over the scenarios stored.
\* scenarios[name]?.total || 0 gives 0 for a missing scenario; the values are
\* then filtered to the positive ones, the labels are not
SCENARIO_LABELS ==
    << [name |-> "pessimistic", label |-> "Pesimis"],
       [name |-> "moderate", label |-> "Moderat"],
       [name |-> "optimistic", label |-> "Optimis"],
       [name |-> "custom", label |-> "Custom"] >>

TotalOrZero(scenarios, name) ==
    IF name \in DOMAIN scenarios THEN scenarios[name].total ELSE 0

prepareComparisonChart(scenarios) ==
    IF DOMAIN scenarios = {} THEN Null
    ELSE LET shown == SelectSeq(SCENARIO_LABELS,
                                LAMBDA e : e.name # "custom"
                                           \/ "custom" \in DOMAIN scenarios)
             totals == [i \in DOMAIN SCENARIO_LABELS |->
                          TotalOrZero(scenarios, SCENARIO_LABELS[i].name)]
         IN  [labels |-> [i \in DOMAIN shown |-> shown[i].label],
              data |-> SelectSeq(totals, LAMBDA v : v > 0)]

ScenarioTotals == {0 - 5, 0, 7, 9}

\* mappings of scenario name to result handed to the comparison chart
ComparisonInputs ==
    UNION { [names -> {[total |-> v] : v \in ScenarioTotals}] :
            names \in SUBSET {SCENARIO_LABELS[i].name :
                                i \in DOMAIN SCENARIO_LABELS} }

InitCalls ==
    /\ page = "home"
    /\ dataset \in TrendDatasets
    /\ net = {}
    /\ dekomposisi = DekomposisiInit
    /\ proyeksi = ProyeksiInit
    /\ pemodelan = PemodelanInit
    /\ report = ReportInit
    /\ scenario = ScenarioInit
    /\ insight = InsightInit
    /\ SettingsInit
    /\ engine = Null
    /\ call \in { [fn |-> "tornadoData", arg |-> data, applied |-> FALSE,
                   result |-> <<>>] : data \in TornadoInputs }
                \cup
                { [fn |-> "prepareComparisonChart", arg |-> scenarios,
                   applied |-> FALSE, result |-> Null] :
                  scenarios \in ComparisonInputs }

ApplyTornadoData ==
    /\ call.fn = "tornadoData"
    /\ ~call.applied
    /\ call' = [call EXCEPT !.applied = TRUE, !.result = tornadoData(call.arg)]
    /\ UNCHANGED <<page, dataset, net, dekomposisi, proyeksi, pemodelan,
                   report, scenario, insight, engine, localStorage,
                   settingsPages>>

ApplyPrepareComparisonChart ==
    /\ call.fn = "prepareComparisonChart"
    /\ ~call.applied
    /\ call' = [call EXCEPT !.applied = TRUE,
                            !.result = prepareComparisonChart(call.arg)]
    /\ UNCHANGED <<page, dataset, net, dekomposisi, proyeksi, pemodelan,
                   report, scenario, insight, engine, localStorage,
                   settingsPages>>

NextCalls ==
    \/ ApplyTornadoData
    \/ ApplyPrepareComparisonChart

SpecCalls == InitCalls /\ [][NextCalls]_vars

\* C15: the rows TornadoChart draws are in descending order of
\* max(|impact_positive|, |impact_negative|), whatever the order of the list
\* it was given.
C15_TornadoRowsRanked ==
    (call.fn = "tornadoData" /\ call.applied) => RankedDescending(call.result)

(***************************************************************************)
(* ScenarioBuilderPage while the backend's records are replaced under it.  *)
(***************************************************************************)
\* POST /data/update, or the data file replaced on the server: the backend
\* serves another dataset from now on
BackendDataReplaced ==
    /\ dataset' \in TrendDatasets \ {dataset}
    /\ UNCHANGED <<page, net, dekomposisi, proyeksi, pemodelan, report,
                   scenario, insight, engine, storageVars, settingsPages>>

NextReload ==
    \/ \E p \in {"home", "scenario"} : Navigate(p)
    \/ BackendDataReplaced
    \/ ScenarioLoadHistoricalDataSettle
    \/ \E presetKey \in {"pessimistic", "optimistic"} : loadPreset(presetKey)
    \/ resetAdjustments
    \/ runScenario
    \/ ScenarioCustomSettle
    \/ ScenarioStandardSettle

SpecReload == Init /\ [][NextReload]_vars

ScenarioRunInFlight == page = "scenario" /\ scenario.loading

\* C16: the records the scenario page holds are always one whole answer of
\* the backend (or none yet); every request of a run in flight carries the
\* base trajectories built from the records captured when the run started,
\* and those captured records stay the same until the run ends, whatever
\* the backend serves meanwhile.
C16_RunKeepsItsSnapshot ==
    [][/\ page' = "scenario" =>
              scenario'.historicalData \in {<<>>} \cup TrendDatasets
       /\ ScenarioRunInFlight' =>
              /\ scenario'.run.historicalData \in TrendDatasets
              /\ \A r \in net' :
                    r.api = "getScenarioAnalysis" =>
                       /\ "base_forecast_data" \in DOMAIN r.params
                       /\ \A key \in PREDICTOR_KEYS, i \in 1..SCENARIO_FORECAST_YEARS :
                             r.params.base_forecast_data[key][i] =
                                (LastRow(scenario'.run.historicalData)[key]
                                 * GrowthFactor(i)) \div 10000
       /\ (ScenarioRunInFlight /\ ScenarioRunInFlight' /\ page' = page) =>
              scenario'.run.historicalData = scenario.run.historicalData
      ]_vars

\* the second request of a run is in flight, built from the records the run
\* captured, while the backend already serves other records
C16_Witness ==
    /\ ScenarioRunInFlight
    /\ scenario.pc = "await_standard"
    /\ scenario.run.allScenarios # <<>>
    /\ scenario.run.historicalData # dataset
    /\ \E r \in net :
          /\ r.op = "scenario.standard"
          /\ r.params.base_forecast_data =
                BaseForecastData(scenario.run.historicalData)

(***************************************************************************)
(* ProyeksiPage: what is on screen after failures and partial ensembles.   *)
(***************************************************************************)
\* C19: on ProyeksiPage, whenever an error is set (the error banner is
\* drawn) projectionResult is null (no results are drawn), also after an
\* earlier request had succeeded.
C19_ErrorClearsResult ==
    (page = "proyeksi" /\ proyeksi.error # NoError)
    => (proyeksi.projectionResult = Null /\ ~ProyeksiRender.results)

WEIGHT_ROWS == <<"arima", "exp_smoothing", "ols">>

NaN == [finite |-> FALSE, value |-> 0]

\* (weights[model] * 100).toFixed(0): a model without a weight gives
\* undefined * 100 = NaN, drawn as "NaN%"
WeightPercent(weights, model) ==
    IF model \in DOMAIN weights
    THEN [finite |-> TRUE,
          value |-> MathRound(100 * weights[model].num, weights[model].den)]
    ELSE NaN

\* the weight rows of the model card: drawn when the model selected is
\* 'ensemble' and the result on screen carries weights
ProyeksiWeightRows ==
    IF /\ proyeksi.projectionResult # Null
       /\ proyeksi.modelType = "ensemble"
       /\ "weights" \in DOMAIN proyeksi.projectionResult.forecast
    THEN [i \in DOMAIN WEIGHT_ROWS |->
            WeightPercent(proyeksi.projectionResult.forecast.weights,
                          WEIGHT_ROWS[i])]
    ELSE <<>>

TypedTarget == <<Ch("1"), Ch("5"), Ch("0"), Ch("0")>>

TypedParameters == { <<>>, <<Ch("2"), Ch("."), Ch("5")>> }

NextSettings ==
    \/ \E p \in {"home", "ui-customization", "policy-settings",
                 "variable-manager"} : Navigate(p)
    \/ \E key \in {"fontSize", "theme"} :
          \E value \in UISettingValues[key] \cap {JsInt(20), JsString("dark")} :
             updateSetting(key, value)
    \/ UIHandleReset
    \/ UIHandleSave
    \/ UISaveStatusTimeout
    \/ PolicyLoadDataSettle
    \/ \E value \in TypedParameters : handleParameterChange("pkb_tax_rate", value)
    \/ handleResetSettings
    \/ handleSaveSettings
    \/ PolicySaveStatusTimeout
    \/ handleToggleEnabled(3)
    \/ VariableHandleSave
    \/ VariableSaveStatusTimeout

\* values a cloned object may hold in a field
CloneFieldValues ==
    { JsNumber(0), JsNumber(0 - 15), JsNumber(25), JsNumber(1200),
      JsNonFinite("NaN"), JsNonFinite("Infinity"), JsUndefined, JsNull,
      JsString("PDRB"), JsBoolean(TRUE),
      JsArray(<<JsNumber(0 - 5), JsNumber(105)>>),
      JsObject(<< <<"PKB", JsNumber(35)>> >>) }

\* objects and arrays handed to deepClone
CloneInputs ==
    { JsObject(<< <<"pkb_change", a>>, <<"other", b>> >>) :
        a \in CloneFieldValues, b \in CloneFieldValues }
    \cup { JsArray(<<a, b>>) : a \in CloneFieldValues, b \in CloneFieldValues }
    \cup { UI_DEFAULT_SETTINGS, POLICY_DEFAULT_SETTINGS, DEFAULT_VARIABLES }

InitRoundTrip ==
    /\ page = "home"
    /\ dataset \in TrendDatasets
    /\ net = {}
    /\ dekomposisi = DekomposisiInit
    /\ proyeksi = ProyeksiInit
    /\ pemodelan = PemodelanInit
    /\ report = ReportInit
    /\ scenario = ScenarioInit
    /\ insight = InsightInit
    /\ SettingsInit
    /\ engine = Null
    /\ call \in {Null} \cup
                { [fn |-> "deepClone", arg |-> x, applied |-> FALSE,
                   result |-> JsUndefined] : x \in CloneInputs }

ApplyDeepClone ==
    /\ call # Null
    /\ call.fn = "deepClone"
    /\ ~call.applied
    /\ call' = [call EXCEPT !.applied = TRUE, !.result = deepClone(call.arg)]
    /\ UNCHANGED <<page, dataset, net, dekomposisi, proyeksi, pemodelan,
                   report, scenario, insight, engine, localStorage,
                   settingsPages>>

\* either deepClone is applied to the drawn argument, or (none drawn) the
\* settings pages run
NextRoundTrip ==
    \/ ApplyDeepClone
    \/ (call = Null /\ NextSettings)

SpecRoundTrip == InitRoundTrip /\ [][NextRoundTrip]_vars

\* the value holds data only, and every number in it is finite
RECURSIVE FiniteData(_)
FiniteData(x) ==
    CASE x.t \in {"nonfinite", "undefined"} -> FALSE
      [] x.t = "array" -> \A i \in DOMAIN x.items : FiniteData(x.items[i])
      [] x.t = "object" -> \A k \in DOMAIN x.of : FiniteData(x.of[k])
      [] OTHER -> TRUE

\* the settings object each settings page holds, and the key it saves it under
HeldSettings ==
    [ui_settings |-> uiCustomization.settings,
     policy_settings |-> policySettings.settings,
     model_variables |-> variableManager.variables]

STORAGE_PAGES ==
    [ui_settings |-> "ui-customization", policy_settings |-> "policy-settings",
     model_variables |-> "variable-manager"]

\* C18: for an object x whose numeric fields are finite, deepClone(x) equals
\* x; and a settings page that saves x to localStorage and later loads it
\* holds a value equal to x: the text a save writes parses back to the saved
\* object, and a page mounted over a stored text holds what that text parses
\* to.
C18_RoundTripKeepsValue ==
    [][/\ (call' # Null /\ call'.applied /\ FiniteData(call'.arg))
            => call'.result = call'.arg
       /\ \A key \in DOMAIN STORAGE_PAGES :
             /\ (key \in DOMAIN localStorage' /\ localStorage' # localStorage
                 /\ page = STORAGE_PAGES[key])
                   => /\ FiniteData(HeldSettings[key])
                      /\ parse(localStorage'[key]) = HeldSettings[key]
             /\ (page' # page /\ page' = STORAGE_PAGES[key]
                 /\ key \in DOMAIN localStorage)
                   => HeldSettings'[key] = parse(localStorage[key])
      ]_vars

\* UICustomizationPage mounted again over settings saved earlier with
\* another font size and theme: it holds the saved values
C18_Witness ==
    /\ page = "ui-customization"
    /\ ~uiCustomization.hasChanges
    /\ uiCustomization.saveStatus = "null"
    /\ "ui_settings" \in DOMAIN localStorage
    /\ uiCustomization.settings =
          ObjSet(ObjSet(UI_DEFAULT_SETTINGS, "fontSize", JsInt(20)),
                 "theme", JsString("dark"))
    /\ "policy_settings" \in DOMAIN localStorage
    /\ parse(localStorage["policy_settings"]).of["parameters"].of["pkb_tax_rate"]
          = JsNumber(25)

(***************************************************************************)
(* The forecasting pages next to the settings pages: what is stored in     *)
(* localStorage against what the requests carry.                           *)
(***************************************************************************)
NextStorage ==
    \/ \E p \in {"home", "ui-customization", "policy-settings",
                 "variable-manager", "proyeksi", "scenario", "pemodelan"} :
          Navigate(p)
    \/ updateSetting("compactMode", JsBoolean(TRUE))
    \/ UIHandleSave
    \/ UISaveStatusTimeout
    \/ PolicyLoadDataSettle
    \/ handleTargetChange("2025", TypedTarget)
    \/ handlePolicyToggle("tax_amnesty")
    \/ handleSaveSettings
    \/ PolicySaveStatusTimeout
    \/ handleToggleEnabled(2)
    \/ VariableHandleSave
    \/ VariableSaveStatusTimeout
    \/ ProyeksiLoadHistoricalDataSettle
    \/ ProyeksiSetForecastYears(10)
    \/ handleGenerateProjection
    \/ ProyeksiGenerateSettle
    \/ ScenarioLoadHistoricalDataSettle
    \/ loadPreset("pessimistic")
    \/ runScenario
    \/ ScenarioCustomSettle
    \/ ScenarioStandardSettle
    \/ PemodelanTogglePredictor("IPM")
    \/ runModel
    \/ PemodelanModelSettle
    \/ PemodelanSensitivitySettle

SpecStorage == InitScenario /\ [][NextStorage]_vars

\* C17: what the settings pages keep in localStorage (ui_settings,
\* policy_settings, model_variables) never enters a forecast: the parameters
\* of every generateProjection, getScenarioAnalysis and
\* getSensitivityAnalysis request sent are exactly the function of the
\* sending page's own selections, captured records and adjustments written
\* out here, whatever localStorage holds.
C17_RequestsIgnoreStorage ==
    [][\A r \in net' \ net :
          /\ r.op = "proyeksi.generate" =>
                r.params =
                   [response_var |-> proyeksi.responseVar,
                    predictor_vars |->
                       IF proyeksi.modelType \in {"ols", "ensemble"}
                       THEN PROYEKSI_PREDICTOR_VARS ELSE Null,
                    forecast_years |-> proyeksi.forecastYears,
                    model_type |-> proyeksi.modelType,
                    include_confidence_intervals |-> TRUE]
          /\ r.op \in {"scenario.custom", "scenario.standard"} =>
                /\ DOMAIN r.params =
                      {"response_var", "predictor_vars", "base_forecast_data",
                       "forecast_years"}
                      \cup (IF r.op = "scenario.custom"
                            THEN {"scenario_adjustments"} ELSE {})
                /\ r.params.response_var = "PAD"
                /\ r.params.forecast_years = SCENARIO_FORECAST_YEARS
                /\ r.params.predictor_vars =
                      [i \in DOMAIN SCENARIO_PREDICTOR_VARS |->
                          SCENARIO_PREDICTOR_VARS[i].key]
                /\ \A key \in PREDICTOR_KEYS, i \in 1..SCENARIO_FORECAST_YEARS :
                      r.params.base_forecast_data[key][i] =
                         (LastRow(scenario'.run.historicalData)[key]
                          * GrowthFactor(i)) \div 10000
                /\ r.op = "scenario.custom" =>
                      r.params.scenario_adjustments =
                         [name \in {"custom"} |->
                            [k \in DOMAIN scenario'.run.adjustments |->
                               Ratio(scenario'.run.adjustments[k], 100)]]
          /\ r.op = "pemodelan.model" =>
                /\ r.params.response_var = pemodelan.selectedResponse
                /\ "predictor_vars" \in DOMAIN r.params =>
                      r.params.predictor_vars = pemodelan.selectedPredictors
          /\ r.op = "pemodelan.sensitivity" =>
                \E q \in net :
                   /\ q.op = "pemodelan.model"
                   /\ r.params = [response_var |-> q.params.response_var,
                                  predictor_vars |-> q.params.predictor_vars,
                                  variation_pct |-> 10]
      ]_vars

\* a projection request is in flight while localStorage holds settings of
\* all three settings pages that differ from their defaults
C17_Witness ==
    /\ page = "proyeksi"
    /\ \E r \in net : r.op = "proyeksi.generate" /\ r.params.forecast_years = 10
    /\ DOMAIN localStorage = DOMAIN STORAGE_PAGES
    /\ parse(localStorage["ui_settings"]) # UI_DEFAULT_SETTINGS
    /\ parse(localStorage["policy_settings"]).of["policies"].of["tax_amnesty"]
          = JsBoolean(TRUE)
    /\ parse(localStorage["model_variables"]) # DEFAULT_VARIABLES

(***************************************************************************)
(* PemodelanPage: results and sensitivity across runs.                     *)
(***************************************************************************)
\* C30: on PemodelanPage sensitivity is non-null only beside the non-null
\* results of an ols or ensemble model; every runModel clears both before
\* its request; results are stored only over the cleared value and
\* sensitivity only beside the results stored since that clearing, so both
\* come from the same run and nothing of an earlier run stays beside a run
\* that failed.
C30_SensitivityBesideItsResults ==
    [][page' = "pemodelan" =>
         /\ pemodelan'.sensitivity # Null =>
               /\ pemodelan'.results # Null
               /\ pemodelan'.results.model_type \in {"ols", "ensemble"}
         /\ (pemodelan'.pc = "await_model" /\ pemodelan.pc # "await_model") =>
               /\ pemodelan'.results = Null
               /\ pemodelan'.sensitivity = Null
               /\ pemodelan'.loading
         /\ (pemodelan'.results # pemodelan.results /\ pemodelan'.results # Null)
               => /\ pemodelan.results = Null
                  /\ pemodelan.pc = "await_model"
         /\ (pemodelan'.sensitivity # pemodelan.sensitivity
             /\ pemodelan'.sensitivity # Null)
               => /\ pemodelan.pc = "await_sensitivity"
                  /\ pemodelan'.results = pemodelan.results
         /\ pemodelan'.pc = "caught" =>
               (pemodelan'.sensitivity = Null /\ ~pemodelan'.loading)
      ]_vars

\* an ensemble run has ended with both its results and its sensitivity
C30_Witness ==
    /\ page = "pemodelan"
    /\ pemodelan.pc = "done"
    /\ pemodelan.results # Null
    /\ pemodelan.results.model_type = "ensemble"
    /\ pemodelan.sensitivity # Null
    /\ ~pemodelan.loading

(***************************************************************************)
(* ScenarioBuilderPage under the assumption that every request sent is     *)
(* eventually answered or fails.                                           *)
(***************************************************************************)
ScenarioInFlight(op) == page = "scenario" /\ \E r \in net : r.op = op

\* weak fairness of the two settle steps, WF_vars(ScenarioCustomSettle) and
\* WF_vars(ScenarioStandardSettle), with ENABLED written out: a settle step
\* is enabled exactly while its request is in flight on the mounted page
SpecScenarioFair ==
    /\ SpecScenario
    /\ \/ []<>~ScenarioInFlight("scenario.custom")
       \/ []<><<ScenarioCustomSettle>>_vars
    /\ \/ []<>~ScenarioInFlight("scenario.standard")
       \/ []<><<ScenarioStandardSettle>>_vars

\* C28: provided its requests settle, every runScenario invocation sets
\* loading back to false (on success, when either request fails, and on the
\* early return over empty records), so the Run button, disabled while
\* loading, does not stay disabled.
C28_RunScenarioEndsLoading ==
    (page = "scenario" /\ scenario.loading) ~> ~scenario.loading

\* a run whose request failed has ended with loading false
C28_Witness ==
    /\ page = "scenario"
    /\ scenario.pc = "caught"
    /\ ~scenario.loading
    /\ net = {}

(***************************************************************************)
(* ExecutiveReportPage: generateReport runs one at a time.                 *)
(***************************************************************************)
ReportRequestsInFlight == {r \in net : r.op = "report.generate"}

C21_ReportReadsForecastPredictions ==
    (page = "report" /\ report.reportData # Null)
    => \A year \in REPORT_YEAR_OPTIONS, model \in {"ensemble", "ols", "arima"} :
          getProjectionForYear(report.reportData, year)[model] =
             Defined(report.reportData.projections[model].forecast.predictions
                        [ProjectionYearIndex(year) + 1])

(***************************************************************************)
(* ScenarioBuilderPage: the comparison chart.                              *)
(***************************************************************************)
\* C22: for any mapping of scenario name to result, the comparison chart has
\* as many values as labels, and the i-th value is the total of the scenario
\* the i-th label names (0 for a scenario missing from the mapping).
C22_ComparisonPairsLabels ==
    (call.fn = "prepareComparisonChart" /\ call.applied /\ call.result # Null)
    => /\ Len(call.result.data) = Len(call.result.labels)
       /\ \A i \in DOMAIN call.result.labels :
             \E e \in Range(SCENARIO_LABELS) :
                /\ e.label = call.result.labels[i]
                /\ call.result.data[i] = TotalOrZero(call.arg, e.name)

(***************************************************************************)
(* VariableManagerPage on its own: the table's row actions, the add form   *)
(* and Save, without the file import.                                      *)
(***************************************************************************)
\* what is typed or picked in the forms
TypedName == JsString("Populasi")

NextVariables ==
    \/ \E p \in {"home", "variable-manager"} : Navigate(p)
    \/ handleToggleEnabled(1)
    \/ handleStartEdit(8)
    \/ setEditForm("type", JsString("response"))
    \/ handleSaveEdit
    \/ handleCancelEdit
    \/ handleDelete(2)
    \/ toggleShowAddForm
    \/ setNewVariable("name", TypedName)
    \/ handleAddVariable
    \/ VariableHandleSave
    \/ VariableSaveStatusTimeout

SpecVariables == InitScenario /\ [][NextVariables]_vars

\* C26: starting from the default variables, after any sequence of add,
\* edit (start, save, cancel), delete and enable-toggle on
\* VariableManagerPage, the ids of the variables held are pairwise distinct.
C26_IdsDistinct ==
    page = "variable-manager" =>
        \A i, j \in DOMAIN VariableRows :
            VariableRows[i].of["id"] = VariableRows[j].of["id"] => i = j

\* a variable was added after another was deleted, and was then edited
C26_Witness ==
    /\ page = "variable-manager"
    /\ \A i \in DOMAIN VariableRows : VariableRows[i].of["id"] # JsInt(2)
    /\ \E i \in DOMAIN VariableRows :
          /\ VariableRows[i].of["id"] = JsInt(8)
          /\ VariableRows[i].of["type"] = JsString("response")

(***************************************************************************)
(* The same page with the file import, next to UICustomizationPage.        *)
(***************************************************************************)
\* texts of the files chosen for import: a list that holds the predictors
\* only, and a text that is not JSON
ImportedFiles ==
    { stringify(JsArray(Tail(DEFAULT_VARIABLES.items))), <<Ch("[")>> }

NextVariablesImport ==
    \/ \E p \in {"home", "variable-manager", "ui-customization"} : Navigate(p)
    \/ \E text \in ImportedFiles : handleImport(text)
    \/ handleToggleEnabled(1)
    \/ handleStartEdit(2)
    \/ setEditForm("type", JsString("response"))
    \/ handleSaveEdit
    \/ handleCancelEdit
    \/ handleDelete(2)
    \/ toggleShowAddForm
    \/ handleAddVariable
    \/ VariableHandleSave
    \/ VariableSaveStatusTimeout
    \/ updateSetting("theme", JsString("dark"))
    \/ UIHandleReset
    \/ UIHandleSave
    \/ UISaveStatusTimeout

SpecVariablesImport == InitScenario /\ [][NextVariablesImport]_vars

\* the response variable as constructed, whatever its enabled switch says
IsSystemPAD(variable) ==
    ObjSet(variable, "enabled", JsBoolean(TRUE)) = DEFAULT_VARIABLES.items[1]

\* C27: after any sequence of add, edit, delete, toggle and import on
\* VariableManagerPage the list still holds the PAD variable with
\* editable false and its fields, enabled apart, as constructed.
C27_PADKept ==
    page = "variable-manager" =>
        \E i \in DOMAIN VariableRows : IsSystemPAD(VariableRows[i])

\* what a page shows after a load: the stored entry parsed, the defaults
\* when there is none
StoredOrDefault(key, defaults) ==
    IF key \in DOMAIN localStorage THEN parse(localStorage[key]) ELSE defaults

\* C24: on UICustomizationPage and VariableManagerPage, after the mount-time
\* load and any sequence of edits, resets, imports and saves, whenever
\* hasChanges is false the state held equals what localStorage holds under
\* the page's key (the defaults when nothing is stored), and a save happens
\* only from a state where hasChanges is true.
C24_CleanMeansStored ==
    /\ [](page = "ui-customization" /\ ~uiCustomization.hasChanges
            => uiCustomization.settings =
                  StoredOrDefault("ui_settings", UI_DEFAULT_SETTINGS))
    /\ [](page = "variable-manager" /\ ~variableManager.hasChanges
            => variableManager.variables =
                  StoredOrDefault("model_variables", DEFAULT_VARIABLES))
    /\ [][/\ uiCustomization'.timers > uiCustomization.timers
               => uiCustomization.hasChanges
          /\ variableManager'.timers > variableManager.timers
               => variableManager.hasChanges]_vars

\* an imported list was saved and is the one held, with edited UI settings
\* saved before
C24_Witness ==
    /\ page = "variable-manager"
    /\ ~variableManager.hasChanges
    /\ "model_variables" \in DOMAIN localStorage
    /\ variableManager.variables = parse(localStorage["model_variables"])
    /\ variableManager.variables # DEFAULT_VARIABLES
    /\ "ui_settings" \in DOMAIN localStorage
    /\ parse(localStorage["ui_settings"]) # UI_DEFAULT_SETTINGS

\* the state of the settings page mounted
MountedSettingsPage ==
    CASE page = "ui-customization" -> uiCustomization
      [] page = "policy-settings" -> policySettings
      [] page = "variable-manager" -> variableManager

\* C25: on the settings pages, in every state where hasChanges is true the
\* unsaved-changes warning is displayed, whatever saveStatus is and however
\* edits and saves interleave with the timers that clear saveStatus.
C25_UnsavedWarningWheneverChanged ==
    page \in {"ui-customization", "policy-settings", "variable-manager"}
        /\ MountedSettingsPage.hasChanges
    => UnsavedWarningShown(MountedSettingsPage)

\* C23: once PolicySettingsPage has finished mounting (the stored settings
\* read, the historical data request settled) and nothing was edited since,
\* settings.targets equals the targets saved under policy_settings whenever
\* that entry exists.
C23_SavedTargetsSurviveLoad ==
    /\ page = "policy-settings"
    /\ ~policySettings.loading
    /\ ~policySettings.hasChanges
    /\ "policy_settings" \in DOMAIN localStorage
    => policySettings.settings.of["targets"] =
          parse(localStorage["policy_settings"]).of["targets"]

====
